---------------------------- MODULE Spec2Model ----------------------------
(***************************************************************************)
(* Safety-aware route search: the four routers of the repository           *)
(* (RoadAwareRouter, GoogleMapsRouter, SafetyRouter, SafeRouteFinder /     *)
(* EnhancedRouteFinder) and the /safety_routes endpoint.                   *)
(*                                                                         *)
(* Number representation (Python floats become scaled integers):           *)
(*   coordinates    micro-degrees            (37.7694 deg = 37769400)      *)
(*   safety scores  hundredths of a point    (85.0 = 8500)                 *)
(*   safety weights hundredths               (0.95 = 95)                   *)
(*   distances      metres                                                 *)
(***************************************************************************)
EXTENDS Integers, Sequences, FiniteSets, TLC

VARIABLES
    kind,           \* which router class the instance is
    constructed,    \* the constructor returned (FALSE: it raised)
    incident_data,  \* self.incident_data: rows of the incident CSV
    safety_grid,    \* self.safety_grid (None or the grid)
    street_graph,   \* self.graph / self.street_graph (None or the graph)
    request,        \* the arguments of the last call
    result,         \* what the last call returned or raised
    pre_grid,       \* self.safety_grid as the last call found it
    last_call,      \* the call before the last one, when it was the same request
    futures,        \* the tasks of the thread pool of a find_google_route in progress
    collected       \* the local list route_options of that call

vars == <<kind, constructed, incident_data, safety_grid, street_graph, request, result,
          pre_grid, last_call, futures, collected>>

None == [none |-> TRUE]

(***************************************************************************)
(* Arithmetic helpers                                                      *)
(***************************************************************************)
Abs(x) == IF x < 0 THEN 0 - x ELSE x

Max2(a, b) == IF a >= b THEN a ELSE b

Min2(a, b) == IF a <= b THEN a ELSE b

\* Python int(a / b) for b > 0: truncation towards zero.
TruncDiv(a, b) == IF a >= 0 THEN a \div b ELSE 0 - ((0 - a) \div b)

\* a / b rounded to the nearest integer, b > 0.
RoundDiv(a, b) == IF a >= 0 THEN (2 * a + b) \div (2 * b) ELSE 0 - ((2 * (0 - a) + b) \div (2 * b))

CeilDiv(a, b) == 0 - ((0 - a) \div b)

RECURSIVE ISqrtIter(_, _)
ISqrtIter(n, x) ==
    LET y == (x + n \div x) \div 2
    IN  IF y >= x THEN x ELSE ISqrtIter(n, y)

\* floor(sqrt(n))
ISqrt(n) == IF n <= 0 THEN 0 ELSE ISqrtIter(n, Min2(n, 46340))

RECURSIVE SumSeq(_)
SumSeq(s) == IF s = <<>> THEN 0 ELSE Head(s) + SumSeq(Tail(s))

RECURSIVE MaxSeq(_)
MaxSeq(s) == IF Len(s) = 1 THEN s[1] ELSE Max2(s[1], MaxSeq(Tail(s)))

SetMin(S) == CHOOSE x \in S : \A y \in S : x <= y

SetMax(S) == CHOOSE x \in S : \A y \in S : x >= y

(***************************************************************************)
(* np.cos(np.radians(lat)) in thousandths, by the Taylor series to x^4.    *)
(***************************************************************************)
CosMilli(lat) ==
    LET xm == ((lat \div 1000) * 17453) \div 1000000   \* milliradians
        x2 == xm * xm
    IN  1000 - x2 \div 2000 + ((x2 \div 1000) * (x2 \div 1000)) \div 24000

(***************************************************************************)
(* _calculate_distance / calculate_distance: the haversine distance in     *)
(* metres. For the distances of a city the great-circle distance is the    *)
(* equirectangular one, R * sqrt(dlat^2 + cos(lat1) cos(lat2) dlng^2).     *)
(***************************************************************************)
RECURSIVE HypotMicro(_, _)
HypotMicro(dy, dx) ==
    IF Abs(dy) > 30000 \/ Abs(dx) > 30000
    THEN 10 * HypotMicro(dy \div 10, dx \div 10)
    ELSE ISqrt(dy * dy + dx * dx)

calculate_distance(lat1, lng1, lat2, lng2) ==
    LET c  == CosMilli((lat1 \div 2) + (lat2 \div 2))
        dx == IF Abs(lng2 - lng1) > 2000000
              THEN ((lng2 - lng1) \div 1000) * c
              ELSE ((lng2 - lng1) * c) \div 1000
        d  == HypotMicro(lat2 - lat1, dx)
    IN  IF d > 1000000 THEN (d \div 10000) * 1112 ELSE (d * 1112) \div 10000

(***************************************************************************)
(* Incident data. A row stands for n identical CSV records:                *)
(*   [Latitude, Longitude, n, recent, Severity, Is_Night]                  *)
(* Latitude = 0 or Longitude = 0 is the invalid coordinate the routers     *)
(* filter out; recent says the Incident Date is within the last two years. *)
(***************************************************************************)
Row(lat, lng, n, recent) ==
    [Latitude |-> lat, Longitude |-> lng, n |-> n, recent |-> recent,
     Severity |-> 1, Is_Night |-> 0]

SeqToSet(s) == {s[i] : i \in DOMAIN s}

\* the rows of a frame that a boolean mask keeps, in the order of the frame
SelectRows(rows, keep) ==
    LET Kept(r) == r \in keep
    IN  SelectSeq(rows, Kept)

\* valid_data: rows with non-zero coordinates
ValidRows(rows) ==
    SelectRows(rows, {r \in SeqToSet(rows) : r.Latitude # 0 /\ r.Longitude # 0})

\* valid_data[valid_data['Incident Date'] >= recent_cutoff]
RecentRows(rows) == SelectRows(rows, {r \in SeqToSet(rows) : r.recent})

RECURSIVE RowCount(_)
RowCount(rows) == IF rows = <<>> THEN 0 ELSE Head(rows).n + RowCount(Tail(rows))

(***************************************************************************)
(* The incident-count grid of RoadAwareRouter, GoogleMapsRouter and        *)
(* SafetyRouter. The numpy array is kept sparse: counts maps the cells     *)
(* that hold incidents to their count, every other cell of the nlat x nlng *)
(* array is 0. nlat = len(lat_bins) - 1, nlng = len(lng_bins) - 1.         *)
(***************************************************************************)
\* int((lat - lat_min) / lat_step), lat_step = grid_size / 111000
BuildLatIdx(lat, lat_min, grid_size) == TruncDiv((lat - lat_min) * 111, grid_size * 1000)

\* int((lng - lng_min) / lng_step), lng_step = grid_size / (111000 * cos(mean lat))
BuildLngIdx(lng, lng_min, cosm, grid_size) ==
    TruncDiv((lng - lng_min) * ((111 * cosm) \div 10), grid_size * 100000)

CountGrid(valid, grid_size) ==
    LET rows    == SeqToSet(valid)
        lat_min == SetMin({r.Latitude : r \in rows})
        lat_max == SetMax({r.Latitude : r \in rows})
        lng_min == SetMin({r.Longitude : r \in rows})
        lng_max == SetMax({r.Longitude : r \in rows})
        cosm    == CosMilli((lat_min + lat_max) \div 2)
        nlat    == CeilDiv((lat_max - lat_min) * 111, grid_size * 1000)
        nlng    == CeilDiv((lng_max - lng_min) * ((111 * cosm) \div 10), grid_size * 100000)
        cell(r) == <<BuildLatIdx(r.Latitude, lat_min, grid_size),
                     BuildLngIdx(r.Longitude, lng_min, cosm, grid_size)>>
        inside  == {r \in rows : /\ 0 <= cell(r)[1] /\ cell(r)[1] < nlat
                                 /\ 0 <= cell(r)[2] /\ cell(r)[2] < nlng}
        cells   == {cell(r) : r \in inside}
    IN  [lat_min |-> lat_min, lat_max |-> lat_max,
         lng_min |-> lng_min, lng_max |-> lng_max,
         nlat |-> nlat, nlng |-> nlng,
         counts |-> [c \in cells |->
                        RowCount(SelectRows(valid, {r \in inside : cell(r) = c}))]]

\* self.safety_grid[lat_idx, lng_idx]
GridCount(grid, i, j) == IF <<i, j>> \in DOMAIN grid.counts THEN grid.counts[<<i, j>>] ELSE 0

\* int((lat - self.lat_min) / (self.lat_max - self.lat_min) * (len(self.lat_bins) - 1))
LookupLatIdx(grid, lat) == TruncDiv((lat - grid.lat_min) * grid.nlat, grid.lat_max - grid.lat_min)

LookupLngIdx(grid, lng) == TruncDiv((lng - grid.lng_min) * grid.nlng, grid.lng_max - grid.lng_min)

InGrid(grid, i, j) == 0 <= i /\ i < grid.nlat /\ 0 <= j /\ j < grid.nlng

(***************************************************************************)
(* Incident count -> safety score                                          *)
(***************************************************************************)
\* a mapping that keeps falling with the count, without the floor
UnclampedScore(incident_count) == 8500 - incident_count * 500

\* GoogleMapsRouter / SafetyRouter: the piecewise mapping
PiecewiseScore(incident_count) ==
    IF incident_count = 0 THEN 8500
    ELSE IF incident_count <= 2 THEN 8000 - incident_count * 500
    ELSE IF incident_count <= 5 THEN 7000 - (incident_count - 2) * 300
    ELSE IF incident_count <= 10 THEN 5500 - (incident_count - 5) * 200
    ELSE Max2(2000, 4500 - (incident_count - 10) * 100)

\* RoadAwareRouter: max(0, 100 - incident_count * 10)
LinearScore(incident_count) == Max2(0, 10000 - incident_count * 1000)

(***************************************************************************)
(* get_safety_score. A score is a number of hundredths; Raised stands for  *)
(* an exception leaving the function.                                      *)
(***************************************************************************)
Raised == 0 - 1

\* RoadAwareRouter.get_safety_score: int() of the nan or inf that a grid of
\* zero extent gives raises ValueError / OverflowError.
RoadAwareRouter_get_safety_score(grid, lat, lng) ==
    IF grid = None THEN 5000
    ELSE IF grid.lat_max = grid.lat_min \/ grid.lng_max = grid.lng_min THEN Raised
    ELSE LET i == LookupLatIdx(grid, lat)
             j == LookupLngIdx(grid, lng)
         IN  IF InGrid(grid, i, j) THEN LinearScore(GridCount(grid, i, j)) ELSE 5000

\* SafetyRouter.get_safety_score: the try/except turns the error into 70.0
SafetyRouter_get_safety_score(grid, lat, lng) ==
    IF grid = None THEN 7000
    ELSE IF grid.lat_max = grid.lat_min \/ grid.lng_max = grid.lng_min THEN 7000
    ELSE LET i == LookupLatIdx(grid, lat)
             j == LookupLngIdx(grid, lng)
         IN  IF InGrid(grid, i, j) THEN PiecewiseScore(GridCount(grid, i, j)) ELSE 7000

\* GoogleMapsRouter.get_safety_score without a grid: neighbourhood patterns
GoogleNoGridScore(lat, lng) ==
    LET base ==
          IF Abs(lat - 37769400) < 10000 /\ Abs(lng + 122486200) < 10000 THEN 8500
          ELSE IF Abs(lat - 37808700) < 10000 /\ Abs(lng + 122409800) < 10000 THEN 7500
          ELSE IF Abs(lat - 37774900) < 10000 /\ Abs(lng + 122419400) < 10000 THEN 6500
          ELSE 7000 + (((lat - 37700000) + (lng + 122400000)) % 300000) \div 100
    IN  Max2(2000, Min2(9500, base))

GoogleMapsRouter_get_safety_score(grid, lat, lng) ==
    IF grid = None THEN GoogleNoGridScore(lat, lng)
    ELSE IF Abs(grid.lat_max - grid.lat_min) < 100 \/ Abs(grid.lng_max - grid.lng_min) < 100
    THEN 7000
    ELSE LET i == LookupLatIdx(grid, lat)
             j == LookupLngIdx(grid, lng)
         IN  IF InGrid(grid, i, j) THEN PiecewiseScore(GridCount(grid, i, j)) ELSE 7000

(***************************************************************************)
(* get_safety_grade                                                        *)
(***************************************************************************)
\* RoadAwareRouter / GoogleMapsRouter / SafetyRouter .get_safety_grade
get_safety_grade(safety_score) ==
    IF safety_score >= 8000 THEN "A"
    ELSE IF safety_score >= 6000 THEN "B"
    ELSE IF safety_score >= 4000 THEN "C"
    ELSE IF safety_score >= 2000 THEN "D"
    ELSE "F"

\* SafeRouteFinder._get_safety_grade
SafeRouteFinder_get_safety_grade(avg_safety) ==
    IF avg_safety >= 9000 THEN "A+"
    ELSE IF avg_safety >= 8000 THEN "A"
    ELSE IF avg_safety >= 7000 THEN "B"
    ELSE IF avg_safety >= 6000 THEN "C"
    ELSE IF avg_safety >= 5000 THEN "D"
    ELSE "F"

(***************************************************************************)
(* Counting the incidents near a point                                     *)
(***************************************************************************)
\* rows inside the bounding box of +- radius_meters / 111000 degrees and
\* then within radius_meters by _calculate_distance
NearbyRows(rows, lat, lng, radius_meters) ==
    SelectRows(rows, {r \in SeqToSet(rows) :
        /\ Abs(r.Latitude - lat) <= (radius_meters * 1000) \div 111
        /\ Abs(r.Longitude - lng) <= (radius_meters * 1000) \div 111
        /\ calculate_distance(lat, lng, r.Latitude, r.Longitude) <= radius_meters})

\* random.seed(hash((lat, lng)) % 1000); random.randint(-3, 5): a fixed
\* function of the coordinates with values in -3..5
SeededRandint(lat, lng) == (((lat + lng) % 1000) % 9) - 3

\* GoogleMapsRouter._count_nearby_incidents
GoogleMapsRouter_count_nearby_incidents(rows, lat, lng, radius_meters) ==
    IF rows = <<>>
    THEN LET base_count ==
               IF Abs(lat - 37769400) < 10000 /\ Abs(lng + 122486200) < 10000 THEN 2
               ELSE IF Abs(lat - 37808700) < 10000 /\ Abs(lng + 122409800) < 10000 THEN 15
               ELSE IF Abs(lat - 37774900) < 10000 /\ Abs(lng + 122419400) < 10000 THEN 25
               ELSE 10 + (((lat - 37700000) + (lng + 122400000)) % 200000) \div 10000
         IN  Max2(0, base_count + SeededRandint(lat, lng))
    ELSE RowCount(NearbyRows(rows, lat, lng, radius_meters))

\* SafetyRouter.count_nearby_incidents
SafetyRouter_count_nearby_incidents(rows, lat, lng, radius_meters) ==
    IF rows = <<>> THEN 0 ELSE RowCount(NearbyRows(rows, lat, lng, radius_meters))

(***************************************************************************)
(* Routes and results                                                      *)
(***************************************************************************)
Pt(lat, lng) == <<lat, lng>>

MidPoint(p, q) == Pt((p[1] + q[1]) \div 2, (p[2] + q[2]) \div 2)

\* sum of _calculate_distance over the consecutive pairs of points
RECURSIVE PathLength(_)
PathLength(points) ==
    IF Len(points) < 2 THEN 0
    ELSE calculate_distance(points[1][1], points[1][2], points[2][1], points[2][2])
         + PathLength(Tail(points))

MakeRoute(route_type, points, total_distance, avg_safety, total_incidents, grade, steps) ==
    [route_type |-> route_type, route_points |-> points,
     total_distance |-> total_distance, avg_safety_score |-> avg_safety,
     total_incidents |-> total_incidents, safety_grade |-> grade,
     safety_scores |-> steps]

NoResult(outcome, error) ==
    [outcome |-> outcome, success |-> FALSE, best_route |-> None,
     all_options |-> <<>>, routing_method |-> "", error |-> error]

Returned(best_route, all_options, routing_method) ==
    [outcome |-> "returned", success |-> TRUE, best_route |-> best_route,
     all_options |-> all_options, routing_method |-> routing_method, error |-> ""]

\* route_options.sort(key=lambda r: abs(r.avg_safety_score - (safety_weight * 100))):
\* list.sort is stable, so the insertion keeps the order of equal keys
ClosenessKey(route, safety_weight) == Abs(route.avg_safety_score - safety_weight * 100)

RECURSIVE InsertByCloseness(_, _, _)
InsertByCloseness(sorted, route, safety_weight) ==
    IF sorted = <<>> THEN <<route>>
    ELSE IF ClosenessKey(route, safety_weight) < ClosenessKey(Head(sorted), safety_weight)
    THEN <<route>> \o sorted
    ELSE <<Head(sorted)>> \o InsertByCloseness(Tail(sorted), route, safety_weight)

RECURSIVE SortByCloseness(_, _)
SortByCloseness(routes, safety_weight) ==
    IF routes = <<>> THEN <<>>
    ELSE InsertByCloseness(SortByCloseness(SubSeq(routes, 1, Len(routes) - 1), safety_weight),
                           routes[Len(routes)], safety_weight)

(***************************************************************************)
(* GoogleMapsRouter: the fallback routes (no street network)               *)
(***************************************************************************)
\* route_strategies of find_google_route, _find_fallback_routes and
\* SafetyRouter.find_safe_routes
route_strategies ==
    << [route_type |-> "fastest",  safety_pref |-> 10],
       [route_type |-> "balanced", safety_pref |-> 50],
       [route_type |-> "safe",     safety_pref |-> 80],
       [route_type |-> "safest",   safety_pref |-> 95] >>

\* math.sin(k / 8 * 3.14) and math.cos(k / 8 * 3.14) in millionths, k = 0..8
Sin314 == <<0, 382499, 706825, 923651, 1000000, 924260, 707951, 383971, 1593>>

Cos314 == <<1000000, 923956, 707388, 383235, 796, -381764, -706262, -923345, -999999>>

\* num_waypoints = 8 if safety_weight > 0.5 else 4
FallbackNumWaypoints(safety_weight) == IF safety_weight > 50 THEN 8 ELSE 4

\* 0.002 * (1 - safety_weight) or 0.001 * safety_weight, in micro-degrees
FallbackAmplitude(safety_weight) ==
    IF safety_weight > 70 THEN (2000 * (100 - safety_weight)) \div 100
    ELSE (1000 * safety_weight) \div 100

\* the i-th interpolated point, i = 0..num_waypoints
FallbackPoint(start, end, i, safety_weight) ==
    LET num == FallbackNumWaypoints(safety_weight)
        k   == (i * 8) \div num + 1
        amp == FallbackAmplitude(safety_weight)
        variation_lat == RoundDiv(amp * Sin314[k], 1000000)
        variation_lng == RoundDiv(amp * Cos314[k], 1000000)
    IN  Pt(start[1] + RoundDiv((end[1] - start[1]) * i, num) + variation_lat,
           start[2] + RoundDiv((end[2] - start[2]) * i, num) + variation_lng)

FallbackPoints(start, end, safety_weight) ==
    [i \in 1..(FallbackNumWaypoints(safety_weight) + 1) |->
        FallbackPoint(start, end, i - 1, safety_weight)]

\* the safety score of step i, adjusted by route type
FallbackStepScore(grid, rows, points, i, safety_weight) ==
    LET mid   == MidPoint(points[i], points[i + 1])
        score == GoogleMapsRouter_get_safety_score(grid, mid[1], mid[2])
        incident_count == GoogleMapsRouter_count_nearby_incidents(rows, mid[1], mid[2], 50)
    IN  IF safety_weight > 70 /\ incident_count > 10
        THEN Max2(2000, score - incident_count * 200)
        ELSE IF safety_weight < 30 THEN Max2(3000, score - incident_count * 50)
        ELSE score

FallbackStepIncidents(rows, points, i) ==
    LET mid == MidPoint(points[i], points[i + 1])
    IN  GoogleMapsRouter_count_nearby_incidents(rows, mid[1], mid[2], 50)

\* GoogleMapsRouter._create_simulated_route_with_safety_fallback
create_simulated_route_with_safety_fallback(grid, rows, start, end, route_type, safety_weight) ==
    LET route_points == FallbackPoints(start, end, safety_weight)
        nsteps == Len(route_points) - 1
        scores == [i \in 1..nsteps |-> FallbackStepScore(grid, rows, route_points, i, safety_weight)]
        counts == [i \in 1..nsteps |-> FallbackStepIncidents(rows, route_points, i)]
        avg_safety == IF nsteps > 0 THEN SumSeq(scores) \div nsteps ELSE 5000
    IN  MakeRoute(route_type \o "_improved", route_points, PathLength(route_points),
                  avg_safety, SumSeq(counts), get_safety_grade(avg_safety), scores)

\* GoogleMapsRouter._find_fallback_routes
find_fallback_routes(grid, rows, start, end, safety_weight) ==
    LET route_options ==
          [k \in 1..Len(route_strategies) |->
              create_simulated_route_with_safety_fallback(grid, rows, start, end,
                  route_strategies[k].route_type, route_strategies[k].safety_pref)]
        sorted == SortByCloseness(route_options, safety_weight)
    IN  IF route_options = <<>>
        THEN NoResult("returned", "Could not find any routes with fallback method.")
        ELSE Returned(sorted[1], sorted, "fallback_safety_analysis")

(***************************************************************************)
(* The street network: an OSMnx MultiDiGraph. nodes is the set of node     *)
(* ids, y and x give a node its latitude and longitude, edges is the set   *)
(* of directed edges <<u, v>> and length the 'length' attribute in metres. *)
(***************************************************************************)
NoPath == <<>>

Range(f) == {f[i] : i \in DOMAIN f}

NodePoint(graph, node) == Pt(graph.y[node], graph.x[node])

\* the lexicographic order of two sequences of integers
RECURSIVE SeqLess(_, _)
SeqLess(p, q) ==
    IF p = <<>> THEN q # <<>>
    ELSE IF q = <<>> THEN FALSE
    ELSE IF Head(p) # Head(q) THEN Head(p) < Head(q)
    ELSE SeqLess(Tail(p), Tail(q))

\* ox.nearest_nodes(graph, lng, lat); nodes equally far at the resolution
\* of the distance are told apart by latitude, then longitude, then id
nearest_nodes(graph, lng, lat) ==
    LET key(n) == << calculate_distance(lat, lng, graph.y[n], graph.x[n]),
                     Abs(graph.y[n] - lat), Abs(graph.x[n] - lng), n >>
    IN  CHOOSE n \in graph.nodes : \A m \in graph.nodes \ {n} : SeqLess(key(n), key(m))

\* every simple path that extends path to target
RECURSIVE PathsFrom(_, _, _)
PathsFrom(graph, path, target) ==
    LET last == path[Len(path)]
    IN  IF last = target THEN {path}
        ELSE UNION {PathsFrom(graph, Append(path, v), target) :
                      v \in {n \in graph.nodes : <<last, n>> \in graph.edges
                                                  /\ n \notin Range(path)}}

RECURSIVE PathLengthAttr(_, _)
PathLengthAttr(graph, path) ==
    IF Len(path) < 2 THEN 0
    ELSE graph.length[<<path[1], path[2]>>] + PathLengthAttr(graph, Tail(path))

\* the least path of a non-empty set under cost, the first in the order of
\* (cost, number of nodes, node sequence) so that the result is a function
\* of the set
PathBefore(p, cp, q, cq) ==
    \/ cp < cq
    \/ cp = cq /\ Len(p) < Len(q)
    \/ cp = cq /\ Len(p) = Len(q) /\ SeqLess(p, q)

\* nx.shortest_path(graph, source, target, weight='length');
\* NetworkXNoPath is NoPath
shortest_path(graph, source, target) ==
    LET paths == PathsFrom(graph, <<source>>, target)
    IN  IF paths = {} THEN NoPath
        ELSE CHOOSE p \in paths : \A q \in paths \ {p} :
                PathBefore(p, PathLengthAttr(graph, p), q, PathLengthAttr(graph, q))

\* nx.shortest_path_length(graph, source, target, weight='length')
shortest_path_length(graph, source, target) ==
    PathLengthAttr(graph, shortest_path(graph, source, target))

(***************************************************************************)
(* SafetyRouter (src/bc/tools/safety_routing_tools.py)                     *)
(***************************************************************************)
IsRoute(r) == r # None

Routes(options) == SelectSeq(options, IsRoute)

NodePoints(graph, path) == [i \in 1..Len(path) |-> NodePoint(graph, path[i])]

\* SafetyRouter._get_route_points: the edges carry no 'geometry'
get_route_points(graph, node_list) ==
    IF node_list = <<>> THEN <<>> ELSE NodePoints(graph, node_list)

\* the weight function of _find_safest_path, doubled: on a multigraph the
\* callable receives the dict of parallel edges, which has no 'length'
\* key, so base_weight is the default 100
SafestEdgeWeight(grid, graph, u, v) ==
    LET mid == MidPoint(NodePoint(graph, u), NodePoint(graph, v))
        safety_score == SafetyRouter_get_safety_score(grid, mid[1], mid[2])
    IN  2 * 10000 + (10000 - safety_score) * 3

RECURSIVE SafestPathWeight(_, _, _)
SafestPathWeight(grid, graph, path) ==
    IF Len(path) < 2 THEN 0
    ELSE SafestEdgeWeight(grid, graph, path[1], path[2])
           + SafestPathWeight(grid, graph, Tail(path))

\* SafetyRouter._find_safest_path
find_safest_path(grid, graph, start_node, end_node) ==
    LET paths == PathsFrom(graph, <<start_node>>, end_node)
    IN  IF paths = {} THEN NoPath
        ELSE CHOOSE p \in paths : \A q \in paths \ {p} :
                PathBefore(p, SafestPathWeight(grid, graph, p),
                           q, SafestPathWeight(grid, graph, q))

\* the rest of _create_route once route_nodes is found: the route points,
\* the safety analysis of their segments and the route dictionary
RouteOfNodes(grid, rows, graph, route_type, route_nodes) ==
    LET route_points == get_route_points(graph, route_nodes)
        nsegs  == Len(route_points) - 1
        mid(i) == MidPoint(route_points[i], route_points[i + 1])
        safety_scores == [i \in 1..nsegs |->
                            SafetyRouter_get_safety_score(grid, mid(i)[1], mid(i)[2])]
        incident_counts == [i \in 1..nsegs |->
                            SafetyRouter_count_nearby_incidents(rows, mid(i)[1], mid(i)[2], 50)]
        avg_safety == IF nsegs > 0 THEN SumSeq(safety_scores) \div nsegs ELSE 5000
    IN  IF route_nodes = NoPath THEN None
        ELSE MakeRoute(route_type, route_points,
                       shortest_path_length(graph, route_nodes[1], route_nodes[Len(route_nodes)]),
                       avg_safety, SumSeq(incident_counts), get_safety_grade(avg_safety),
                       safety_scores)

\* SafetyRouter._create_route; None when no path exists
create_route(grid, rows, graph, start, end, route_type, safety_weight) ==
    RouteOfNodes(grid, rows, graph, route_type,
        IF safety_weight > 70
        THEN find_safest_path(grid, graph, nearest_nodes(graph, start[2], start[1]),
                                           nearest_nodes(graph, end[2], end[1]))
        ELSE shortest_path(graph, nearest_nodes(graph, start[2], start[1]),
                                  nearest_nodes(graph, end[2], end[1])))

\* SafetyRouter.find_safe_routes
find_safe_routes(grid, rows, graph, start, end, safety_weight) ==
    IF graph = None \/ graph.nodes = {}
    THEN NoResult("returned", "Street network not available")
    ELSE LET routes == Routes([k \in 1..Len(route_strategies) |->
                          create_route(grid, rows, graph, start, end,
                              route_strategies[k].route_type, route_strategies[k].safety_pref)])
             sorted == SortByCloseness(routes, safety_weight)
         IN  IF routes = <<>> THEN NoResult("returned", "Could not find any routes")
             ELSE Returned(sorted[1], sorted, "osmnx_safety_optimized")

(***************************************************************************)
(* GoogleMapsRouter: the routes over a street network                      *)
(***************************************************************************)
\* GoogleMapsRouter._find_osmnx_route; None is NoPath
find_osmnx_route(graph, start, end) ==
    shortest_path(graph, nearest_nodes(graph, start[2], start[1]),
                         nearest_nodes(graph, end[2], end[1]))

\* safety_weight_fast of _find_safest_route_fast, times 200: on a multigraph
\* d is the dict of parallel edges, so d.get('length', 100) is 100
safety_weight_fast(grid, graph, u, v) ==
    LET mid == MidPoint(NodePoint(graph, u), NodePoint(graph, v))
    IN  200 * 100 + (10000 - GoogleMapsRouter_get_safety_score(grid, mid[1], mid[2])) * 3

RECURSIVE FastPathWeight(_, _, _)
FastPathWeight(grid, graph, path) ==
    IF Len(path) < 2 THEN 0
    ELSE safety_weight_fast(grid, graph, path[1], path[2])
           + FastPathWeight(grid, graph, Tail(path))

\* nx.shortest_path(graph, start_node, end_node, weight=safety_weight_fast)
FastestSafePath(grid, graph, paths) ==
    IF paths = {} THEN NoPath
    ELSE CHOOSE p \in paths : \A q \in paths \ {p} :
            PathBefore(p, FastPathWeight(grid, graph, p), q, FastPathWeight(grid, graph, q))

\* GoogleMapsRouter._find_safest_route_fast: without a path it falls back to
\* _find_osmnx_route, which finds none either
find_safest_route_fast(grid, graph, start, end) ==
    FastestSafePath(grid, graph,
                    PathsFrom(graph, <<nearest_nodes(graph, start[2], start[1])>>,
                              nearest_nodes(graph, end[2], end[1])))

\* GoogleMapsRouter._get_route_points_from_nodes: the edges carry no 'geometry'
get_route_points_from_nodes(graph, node_list) ==
    IF node_list = <<>> THEN <<>> ELSE NodePoints(graph, node_list)

\* the segments _create_simulated_route_with_safety_fast analyses: every
\* third one, by the index of its first point counted from 1
SampledSegments(route_points) ==
    SelectSeq([i \in 1..(Len(route_points) - 1) |-> i], LAMBDA i : (i - 1) % 3 = 0)

\* len(sample_indices): range(0, len - 1, 3) and the appended len - 1
NumSampleIndices(route_points) == CeilDiv(Len(route_points) - 1, 3) + 1

\* safety_score and incident_count of the analysed segments, each taken at
\* the midpoint of the segment
FastStepScores(grid, route_points, sampled) ==
    [k \in 1..Len(sampled) |->
        GoogleMapsRouter_get_safety_score(grid,
            MidPoint(route_points[sampled[k]], route_points[sampled[k] + 1])[1],
            MidPoint(route_points[sampled[k]], route_points[sampled[k] + 1])[2])]

FastStepIncidents(rows, route_points, sampled) ==
    [k \in 1..Len(sampled) |->
        GoogleMapsRouter_count_nearby_incidents(rows,
            MidPoint(route_points[sampled[k]], route_points[sampled[k] + 1])[1],
            MidPoint(route_points[sampled[k]], route_points[sampled[k] + 1])[2], 50)]

\* the GoogleRoute of _create_simulated_route_with_safety_fast: avg_safety is
\* total_safety_score * scale_factor / len(route_points) with
\* scale_factor = len(route_points) / len(sample_indices)
FastRouteOfPoints(route_type, route_points, total_distance, scores, incidents) ==
    MakeRoute(route_type, route_points, total_distance,
              SumSeq(scores) \div NumSampleIndices(route_points),
              (SumSeq(incidents) * Len(route_points)) \div NumSampleIndices(route_points),
              get_safety_grade(SumSeq(scores) \div NumSampleIndices(route_points)),
              scores)

FastRouteOfNodes(grid, rows, graph, route_type, route_nodes) ==
    IF route_nodes = NoPath THEN None
    ELSE FastRouteOfPoints(route_type,
             get_route_points_from_nodes(graph, route_nodes),
             shortest_path_length(graph, route_nodes[1], route_nodes[Len(route_nodes)]),
             FastStepScores(grid, get_route_points_from_nodes(graph, route_nodes),
                            SampledSegments(get_route_points_from_nodes(graph, route_nodes))),
             FastStepIncidents(rows, get_route_points_from_nodes(graph, route_nodes),
                               SampledSegments(get_route_points_from_nodes(graph, route_nodes))))

\* GoogleMapsRouter._create_simulated_route_with_safety_fast
create_simulated_route_with_safety_fast(grid, rows, graph, start, end, route_type, safety_weight) ==
    FastRouteOfNodes(grid, rows, graph, route_type,
        IF safety_weight > 70 THEN find_safest_route_fast(grid, graph, start, end)
        ELSE find_osmnx_route(graph, start, end))

(***************************************************************************)
(* RoadAwareRouter (road_aware_router.py)                                  *)
(***************************************************************************)
\* RoadAwareRouter._count_nearby_incidents: every row within radius_meters
RoadAwareRouter_count_nearby_incidents(rows, lat, lng, radius_meters) ==
    RowCount(SelectRows(rows, {r \in SeqToSet(rows) :
        calculate_distance(lat, lng, r.Latitude, r.Longitude) <= radius_meters}))

\* the metrics shared by the four route constructors and _fallback_route;
\* None when get_safety_score raises inside the constructor's try
RoadRoute(grid, rows, route_coords, route_type) ==
    LET safety_scores == [i \in 1..Len(route_coords) |->
            RoadAwareRouter_get_safety_score(grid, route_coords[i][1], route_coords[i][2])]
        avg_safety == SumSeq(safety_scores) \div Len(safety_scores)
        incidents  == [i \in 1..Len(route_coords) |->
            RoadAwareRouter_count_nearby_incidents(rows, route_coords[i][1], route_coords[i][2], 100)]
    IN  IF Raised \in Range(safety_scores) THEN None
        ELSE MakeRoute(route_type, route_coords, PathLength(route_coords), avg_safety,
                       SumSeq(incidents), get_safety_grade(avg_safety), safety_scores)

\* RoadAwareRouter._create_shortest_path_route
create_shortest_path_route(grid, rows, graph, start_node, end_node) ==
    LET path == shortest_path(graph, start_node, end_node)
    IN  IF path = NoPath THEN None
        ELSE RoadRoute(grid, rows, NodePoints(graph, path), "shortest")

\* nx.astar_path with the callable costs of _create_safety_optimized_route,
\* _create_balanced_route and _create_scenic_route: on a multigraph the
\* callable receives the dict of parallel edges, d['length'] raises KeyError
\* at the first edge examined, and a start without edges raises
\* NetworkXNoPath; only start_node = end_node gives a path
astar_path_callable(graph, start_node, end_node) ==
    IF start_node = end_node THEN <<start_node>> ELSE NoPath

\* _create_safety_optimized_route, _create_balanced_route, _create_scenic_route
create_astar_route(grid, rows, graph, start_node, end_node, route_type) ==
    LET path == astar_path_callable(graph, start_node, end_node)
    IN  IF path = NoPath THEN None
        ELSE RoadRoute(grid, rows, NodePoints(graph, path), route_type)

\* RoadAwareRouter._generate_road_route_options
generate_road_route_options(grid, rows, graph, start_node, end_node) ==
    Routes(<< create_shortest_path_route(grid, rows, graph, start_node, end_node),
              create_astar_route(grid, rows, graph, start_node, end_node, "safest"),
              create_astar_route(grid, rows, graph, start_node, end_node, "balanced"),
              create_astar_route(grid, rows, graph, start_node, end_node, "scenic") >>)

\* a combined score with the two weights exchanged
SwappedScore(option, max_dist, safety_weight) ==
    safety_weight * (max_dist - option.total_distance) * 10000
      + (100 - safety_weight) * option.avg_safety_score * max_dist

\* combined_score * 100 * 10000 * max_dist, an integer
CombinedScore(option, max_dist, safety_weight) ==
    (100 - safety_weight) * (max_dist - option.total_distance) * 10000
      + safety_weight * option.avg_safety_score * max_dist

MaxDistance(route_options) ==
    MaxSeq([i \in 1..Len(route_options) |-> route_options[i].total_distance])

\* the loop of _select_best_road_route / _select_best_route over the first
\* n options: <<best_score, best_route>>, best_score = -1 scaled as the scores
RECURSIVE SelectLoop(_, _, _, _)
SelectLoop(route_options, n, max_dist, safety_weight) ==
    IF n = 0 THEN << 0 - 100 * 10000 * max_dist, None >>
    ELSE LET prev == SelectLoop(route_options, n - 1, max_dist, safety_weight)
             combined_score == CombinedScore(route_options[n], max_dist, safety_weight)
         IN  IF combined_score > prev[1] THEN << combined_score, route_options[n] >>
             ELSE prev

\* a selection that takes the route closest to 100 * safety_weight
SelectClosestRoute(route_options, safety_weight) ==
    IF route_options = <<>> THEN [raised |-> "No route options available"]
    ELSE SortByCloseness(route_options, safety_weight)[1]

\* 0 / 0 on Python numbers raises ZeroDivisionError; on numpy floats it is
\* nan, which never exceeds best_score
ZeroDivision == [raised |-> "ZeroDivisionError"]

\* RoadAwareRouter._select_best_road_route: the total_distance of a route of
\* one point is sum() of nothing, the Python int 0
select_best_road_route(route_options, safety_weight) ==
    LET max_dist == MaxDistance(route_options)
    IN  IF route_options = <<>> THEN [raised |-> "No route options available"]
        ELSE IF max_dist = 0
        THEN IF Len(route_options[1].route_points) < 2 THEN ZeroDivision ELSE None
        ELSE SelectLoop(route_options, Len(route_options), max_dist, safety_weight)[2]

\* RoadAwareRouter._fallback_route
fallback_route(grid, rows, start, end) ==
    LET route == RoadRoute(grid, rows, <<start, end>>, "fallback")
    IN  IF route = None THEN NoResult("raised", "ValueError")
        ELSE Returned(route, <<route>>, "fallback")

\* RoadAwareRouter.find_road_route
find_road_route(grid, rows, graph, start, end, safety_weight) ==
    IF graph = None THEN fallback_route(grid, rows, start, end)
    ELSE LET start_node == nearest_nodes(graph, start[2], start[1])
             end_node   == nearest_nodes(graph, end[2], end[1])
             route_options == generate_road_route_options(grid, rows, graph, start_node, end_node)
             best_route == select_best_road_route(route_options, safety_weight)
         IN  IF route_options = <<>> THEN fallback_route(grid, rows, start, end)
             ELSE IF best_route = ZeroDivision THEN NoResult("raised", "ZeroDivisionError")
             ELSE Returned(best_route, route_options, "road_aware")

(***************************************************************************)
(* SafeRouteFinder (safe_route_finder.py). The safety grid is kept as its  *)
(* bounds; the score of a cell is computed from the incident rows, which   *)
(* never change after construction.                                        *)
(***************************************************************************)
\* self.grid_resolution = 0.001 degrees
grid_resolution == 1000

\* len(np.arange(lo, hi, self.grid_resolution))
GridLines(lo, hi) == IF hi <= lo THEN 0 ELSE CeilDiv(hi - lo, grid_resolution)

\* np.argmin(np.abs(grid - value)): the first of the nearest grid lines
NearestLine(lo, hi, value) ==
    LET last == GridLines(lo, hi) - 1
        below == (value - lo) \div grid_resolution
        line  == IF (value - lo) % grid_resolution > grid_resolution \div 2
                 THEN below + 1 ELSE below
    IN  IF value <= lo THEN 0 ELSE Min2(line, last)

\* the rows of the cell whose corner is grid line (i, j)
CellRows(bounds, rows, i, j) ==
    LET lat == bounds.min_lat + i * grid_resolution
        lng == bounds.min_lng + j * grid_resolution
    IN  SelectRows(rows, {r \in SeqToSet(rows) :
            /\ r.Latitude >= lat /\ r.Latitude < lat + grid_resolution
            /\ r.Longitude >= lng /\ r.Longitude < lng + grid_resolution})

RECURSIVE SeveritySum(_)
SeveritySum(rows) ==
    IF rows = <<>> THEN 0 ELSE Head(rows).Severity * Head(rows).n + SeveritySum(Tail(rows))

RECURSIVE NightSum(_)
NightSum(rows) ==
    IF rows = <<>> THEN 0 ELSE Head(rows).Is_Night * Head(rows).n + NightSum(Tail(rows))

\* the value create_safety_grid stores in a cell
CellScore(cell_incidents) ==
    LET incident_count == RowCount(cell_incidents)
    IN  IF incident_count > 0
        THEN Max2(0, 10000 - incident_count * 200
                       - (300 * SeveritySum(cell_incidents)) \div incident_count
                       - NightSum(cell_incidents) * 500)
        ELSE 10000

\* SafeRouteFinder.get_safety_score
SafeRouteFinder_get_safety_score(bounds, rows, lat, lng) ==
    IF bounds = None THEN 5000
    ELSE CellScore(CellRows(bounds, rows,
                            NearestLine(bounds.min_lat, bounds.max_lat, lat),
                            NearestLine(bounds.min_lng, bounds.max_lng, lng)))

\* SafeRouteFinder.get_incident_count: sqrt(dlat^2 + dlng^2) * 111000 <= radius
get_incident_count(rows, lat, lng, radius_meters) ==
    RowCount(SelectRows(rows, {r \in SeqToSet(rows) :
        /\ Abs(r.Latitude - lat) <= (radius_meters * 1000) \div 111
        /\ Abs(r.Longitude - lng) <= (radius_meters * 1000) \div 111
        /\ HypotMicro(r.Latitude - lat, r.Longitude - lng) * 111 <= radius_meters * 1000}))

\* SafeRouteFinder._calculate_bearing, to the nearest 45 degrees
calculate_bearing(lat1, lng1, lat2, lng2) ==
    IF lng2 = lng1 THEN (IF lat2 >= lat1 THEN 0 ELSE 180)
    ELSE IF lat2 = lat1 THEN (IF lng2 > lng1 THEN 90 ELSE 270)
    ELSE IF lng2 > lng1 THEN (IF lat2 > lat1 THEN 45 ELSE 135)
    ELSE (IF lat2 > lat1 THEN 315 ELSE 225)

\* math.cos and math.sin of a multiple of 45 degrees, in millionths
CosDeg(angle) ==
    LET k == (angle % 360) \div 45
    IN  <<1000000, 707107, 0, -707107, -1000000, -707107, 0, 707107>>[k + 1]

SinDeg(angle) == CosDeg(angle + 270)

\* one waypoint of _generate_waypoints: the turn, the random offset
\* random = <<np.random.normal(0, 0.0003), np.random.normal(0, 0.0003)>>, and
\* the search of 8 directions for a location safer by more than 10
RECURSIVE SaferNearby(_, _, _, _, _)
SaferNearby(bounds, rows, waypoint, safety_score, attempt) ==
    IF attempt = 8 THEN waypoint
    ELSE LET new == Pt(waypoint[1] + RoundDiv(CosDeg(attempt * 45), 1000),
                       waypoint[2] + RoundDiv(SinDeg(attempt * 45), 1000))
         IN  IF SafeRouteFinder_get_safety_score(bounds, rows, new[1], new[2])
                  > safety_score + 1000
             THEN new
             ELSE SaferNearby(bounds, rows, waypoint, safety_score, attempt + 1)

Waypoint(bounds, rows, start, end, i, num_waypoints, random) ==
    LET bearing    == calculate_bearing(start[1], start[2], end[1], end[2])
        turn_angle == IF i % 2 = 0 THEN bearing + 90 ELSE bearing + 270
        waypoint   ==
          Pt(start[1] + RoundDiv((end[1] - start[1]) * i, num_waypoints)
                      + RoundDiv(2 * CosDeg(turn_angle), 1000) + random[1],
             start[2] + RoundDiv((end[2] - start[2]) * i, num_waypoints)
                      + RoundDiv(2 * SinDeg(turn_angle), 1000) + random[2])
        safety_score == SafeRouteFinder_get_safety_score(bounds, rows, waypoint[1], waypoint[2])
    IN  IF safety_score < 4000 THEN SaferNearby(bounds, rows, waypoint, safety_score, 0)
        ELSE waypoint

\* SafeRouteFinder._generate_waypoints; randoms[i] is the pair of draws for
\* the i-th intermediate waypoint
generate_waypoints(bounds, rows, start, end, randoms) ==
    LET direct_distance == calculate_distance(start[1], start[2], end[1], end[2])
        num_waypoints   == IF direct_distance > 2000 THEN 6
                           ELSE IF direct_distance > 1000 THEN 4 ELSE 3
    IN  <<start>>
        \o [i \in 1..(num_waypoints - 1) |->
               Waypoint(bounds, rows, start, end, i, num_waypoints, randoms[i])]
        \o <<end>>

\* the number of normal draws _generate_waypoints makes, in pairs
NumRandomPairs(start, end) ==
    LET direct_distance == calculate_distance(start[1], start[2], end[1], end[2])
    IN  IF direct_distance > 2000 THEN 5 ELSE IF direct_distance > 1000 THEN 3 ELSE 2

\* SafeRouteFinder._add_intermediate_waypoints: the points added between
\* two consecutive waypoints
IntermediatePoints(p, q) ==
    LET distance == calculate_distance(p[1], p[2], q[1], q[2])
        num_intermediate == distance \div 300
    IN  IF distance > 500
        THEN [j \in 1..(num_intermediate - 1) |->
                Pt(p[1] + RoundDiv((q[1] - p[1]) * j, num_intermediate + 1)
                        + (IF j % 2 = 0 THEN 200 ELSE 0 - 200),
                   p[2] + RoundDiv((q[2] - p[2]) * j, num_intermediate + 1))]
        ELSE <<>>

RECURSIVE add_intermediate_waypoints(_)
add_intermediate_waypoints(waypoints) ==
    IF Len(waypoints) < 2 THEN waypoints
    ELSE <<waypoints[1]>> \o IntermediatePoints(waypoints[1], waypoints[2])
           \o add_intermediate_waypoints(Tail(waypoints))

\* np.inf
Infinity == 1000000000

\* the costs matrix of _find_optimal_path times 100 * max_dist * max_safety,
\* max_safety and PairSafety being sums of two whole-point scores; NaN when max_dist or max_safety is 0, where numpy
\* divides 0 by 0
NaN == <<>>

PairSafety(scores, i, j) == (scores[i] \div 100) + (scores[j] \div 100)

CostMatrix(waypoints, scores, safety_weight) ==
    LET n     == Len(waypoints)
        pairs == {<<i, j>> \in (1..n) \X (1..n) : i # j}
        distances == [i \in 1..n |->
                        [j \in 1..n |->
                           IF i = j THEN 0
                           ELSE calculate_distance(waypoints[i][1], waypoints[i][2],
                                                   waypoints[j][1], waypoints[j][2])] \o <<>>] \o <<>>
        max_dist   == IF pairs = {} THEN 0 ELSE SetMax({distances[q[1]][q[2]] : q \in pairs})
        max_safety == IF pairs = {} THEN 0
                      ELSE SetMax({PairSafety(scores, q[1], q[2]) : q \in pairs})
    IN  IF max_dist = 0 \/ max_safety = 0 THEN NaN
        ELSE [i \in 1..n |->
                [j \in 1..n |->
                   (100 - safety_weight) * distances[i][j] * max_safety
                     + safety_weight * max_dist * (max_safety - PairSafety(scores, i, j))] \o <<>>] \o <<>>

\* a pop that hands out the greatest (distance, node) tuple
HeapBottom(pq) == CHOOSE t \in pq : \A u \in pq :
                     t[1] > u[1] \/ (t[1] = u[1] /\ t[2] >= u[2])

\* heapq.heappop: the least (distance, node) tuple
HeapTop(pq) == CHOOSE t \in pq : \A u \in pq :
                  t[1] < u[1] \/ (t[1] = u[1] /\ t[2] <= u[2])

\* the while loop of _dijkstra; nodes are 1..n, previous 0 stands for -1;
\* the result is previous
RECURSIVE DijkstraLoop(_, _, _, _, _, _)
DijkstraLoop(costs, n, distances, previous, pq, visited) ==
    IF pq = {} THEN previous
    ELSE LET top     == HeapTop(pq)
             current == top[2]
             better  == {nb \in 1..n : /\ nb # current
                                       /\ costs # NaN
                                       /\ top[1] + costs[current][nb] < distances[nb]}
         IN  IF current \in visited
             THEN DijkstraLoop(costs, n, distances, previous, pq \ {top}, visited)
             ELSE IF current = n THEN previous
             ELSE DijkstraLoop(costs, n,
                    [nb \in 1..n |-> IF nb \in better
                                     THEN top[1] + costs[current][nb] ELSE distances[nb]] \o <<>>,
                    [nb \in 1..n |-> IF nb \in better THEN current ELSE previous[nb]] \o <<>>,
                    (pq \ {top}) \cup {<<top[1] + costs[current][nb], nb>> : nb \in better},
                    visited \cup {current})

\* the reconstruction loop of _dijkstra; Diverges when previous holds a cycle
Diverges == <<0>>

RECURSIVE Reconstruct(_, _, _)
Reconstruct(previous, current, fuel) ==
    IF current = 0 THEN <<>>
    ELSE IF fuel = 0 THEN Diverges
    ELSE LET before == Reconstruct(previous, previous[current], fuel - 1)
         IN  IF before = Diverges THEN Diverges ELSE Append(before, current)

\* SafeRouteFinder._dijkstra(costs, 0, n - 1)
dijkstra(costs, n) ==
    Reconstruct(DijkstraLoop(costs, n,
                             [nb \in 1..n |-> IF nb = 1 THEN 0 ELSE Infinity] \o <<>>,
                             [nb \in 1..n |-> 0] \o <<>>, {<<0, 1>>}, {}),
                n, n)

RoutePoint(lat, lng, safety_score, incident_count, total_distance) ==
    [lat |-> lat, lng |-> lng, safety_score |-> safety_score,
     incident_count |-> incident_count, total_distance |-> total_distance]

\* the conversion of the path into RoutePoint objects; a reconstruction
\* that does not end gives no result
RoutePointsOf(rows, waypoints, scores, path) ==
    LET points == [i \in 1..Len(path) |-> waypoints[path[i]]]
    IN  IF path = Diverges THEN [outcome |-> "diverged", route |-> <<>>]
        ELSE [outcome |-> "returned",
              route |-> [i \in 1..Len(path) |->
                RoutePoint(points[i][1], points[i][2], scores[path[i]],
                           get_incident_count(rows, points[i][1], points[i][2], 100),
                           PathLength(SubSeq(points, 1, i)))]]

\* SafeRouteFinder._find_optimal_path
find_optimal_path(bounds, rows, given, safety_weight) ==
    LET waypoints == IF Len(given) < 4 THEN add_intermediate_waypoints(given) ELSE given
        scores == [i \in 1..Len(waypoints) |->
                     SafeRouteFinder_get_safety_score(bounds, rows, waypoints[i][1], waypoints[i][2])]
                  \o <<>>
    IN  RoutePointsOf(rows, waypoints, scores,
                      dijkstra(CostMatrix(waypoints, scores, safety_weight), Len(waypoints)))

\* the bounds find_safe_route gives create_safety_grid
RequestBounds(start, end, margin) ==
    [min_lat |-> Min2(start[1], end[1]) - margin, min_lng |-> Min2(start[2], end[2]) - margin,
     max_lat |-> Max2(start[1], end[1]) + margin, max_lng |-> Max2(start[2], end[2]) + margin]

\* SafeRouteFinder.find_safe_route, given the grid after its lazy creation
find_safe_route(bounds, rows, start, end, safety_weight, randoms) ==
    find_optimal_path(bounds, rows,
                      generate_waypoints(bounds, rows, start, end, randoms), safety_weight)

(***************************************************************************)
(* EnhancedRouteFinder (enhanced_route_finder.py), a SafeRouteFinder that  *)
(* builds five route options and selects one by the combined score         *)
(***************************************************************************)
\* math.cos of the angles the waypoint generators use, in millionths:
\* multiples of 30, 45 and 72 degrees, and their sines as cosines
CosMicro(angle) ==
    LET a == angle % 360
        b == IF a > 180 THEN 360 - a ELSE a
    IN  CASE b = 0   -> 1000000
          [] b = 18  -> 951057
          [] b = 30  -> 866025
          [] b = 45  -> 707107
          [] b = 54  -> 587785
          [] b = 60  -> 500000
          [] b = 72  -> 309017
          [] b = 90  -> 0
          [] b = 108 -> 0 - 309017
          [] b = 120 -> 0 - 500000
          [] b = 126 -> 0 - 587785
          [] b = 135 -> 0 - 707107
          [] b = 144 -> 0 - 809017
          [] b = 150 -> 0 - 866025
          [] b = 162 -> 0 - 951057
          [] b = 180 -> 0 - 1000000

SinMicro(angle) == CosMicro(angle + 270)

\* the loop of _find_safest_nearby_location from attempt on: the location
\* kept is replaced only by a strictly safer one; search_radius is in
\* thousandths of a degree
RECURSIVE SafestLoop(_, _, _, _, _, _, _, _)
SafestLoop(bounds, rows, p, search_radius, num_attempts, attempt, best, best_safety) ==
    IF attempt = num_attempts THEN best
    ELSE LET angle == (attempt * 360) \div num_attempts
             test  == Pt(p[1] + RoundDiv(search_radius * CosMicro(angle), 1000),
                         p[2] + RoundDiv(search_radius * SinMicro(angle), 1000))
             test_safety == SafeRouteFinder_get_safety_score(bounds, rows, test[1], test[2])
         IN  IF test_safety > best_safety
             THEN SafestLoop(bounds, rows, p, search_radius, num_attempts, attempt + 1,
                             test, test_safety)
             ELSE SafestLoop(bounds, rows, p, search_radius, num_attempts, attempt + 1,
                             best, best_safety)

\* EnhancedRouteFinder._find_safest_nearby_location
find_safest_nearby_location(bounds, rows, p, safety_focus) ==
    IF safety_focus
    THEN SafestLoop(bounds, rows, p, 2, 12, 0, p,
                    SafeRouteFinder_get_safety_score(bounds, rows, p[1], p[2]))
    ELSE SafestLoop(bounds, rows, p, 1, 8, 0, p,
                    SafeRouteFinder_get_safety_score(bounds, rows, p[1], p[2]))

\* EnhancedRouteFinder._generate_safety_waypoints
generate_safety_waypoints(bounds, rows, start, end, safety_focus) ==
    LET direct_distance == calculate_distance(start[1], start[2], end[1], end[2])
        num_waypoints   == IF safety_focus THEN Max2(5, direct_distance \div 200)
                           ELSE Max2(3, direct_distance \div 300)
    IN  <<start>>
        \o [i \in 1..(num_waypoints - 1) |->
               find_safest_nearby_location(bounds, rows,
                   Pt(start[1] + RoundDiv((end[1] - start[1]) * i, num_waypoints),
                      start[2] + RoundDiv((end[2] - start[2]) * i, num_waypoints)),
                   safety_focus)]
        \o <<end>>

\* EnhancedRouteFinder._generate_perimeter_waypoints: four points on a circle
\* of radius 0.005 degrees around the midpoint, at 72, 144, 216, 288 degrees
generate_perimeter_waypoints(bounds, rows, start, end) ==
    <<start>>
    \o [i \in 1..4 |->
           find_safest_nearby_location(bounds, rows,
               Pt(RoundDiv(start[1] + end[1], 2) + RoundDiv(5 * CosMicro(72 * i), 1000),
                  RoundDiv(start[2] + end[2], 2) + RoundDiv(5 * SinMicro(72 * i), 1000)),
               TRUE)]
    \o <<end>>

\* the loop of _combine_best_path_segments from index i on; i and the
\* indices into a path count from 0 as in the code
RECURSIVE CombineLoop(_, _, _)
CombineLoop(paths, i, max_points) ==
    IF i >= max_points - 1 THEN <<>>
    ELSE LET path == paths[(i % Len(paths)) + 1]
         IN  (IF i < Len(path) THEN <<path[i + 1]>> ELSE <<>>)
               \o CombineLoop(paths, i + 1, max_points)

\* a combination that leaves out the closing append of the end point
CombineWithoutEnd(paths, start, end) ==
    <<start>>
    \o CombineLoop(paths, 1, MaxSeq([k \in 1..Len(paths) |-> Len(paths[k])]))

\* EnhancedRouteFinder._combine_best_path_segments
combine_best_path_segments(paths, start, end) ==
    <<start>>
    \o CombineLoop(paths, 1, MaxSeq([k \in 1..Len(paths) |-> Len(paths[k])]))
    \o <<end>>

\* EnhancedRouteFinder._generate_multipath_waypoints
generate_multipath_waypoints(bounds, rows, start, end) ==
    combine_best_path_segments(
        << generate_safety_waypoints(bounds, rows, start, end, TRUE),
           generate_perimeter_waypoints(bounds, rows, start, end) >>,
        start, end)

\* SafeRouteFinder.get_route_summary: the entries a RouteOption takes
get_route_summary(route) ==
    LET safety_scores == [i \in 1..Len(route) |-> route[i].safety_score]
    IN  [total_distance_meters |-> route[Len(route)].total_distance,
         avg_safety_score |-> SumSeq(safety_scores) \div Len(route),
         total_incidents_along_route |->
             SumSeq([i \in 1..Len(route) |-> route[i].incident_count]),
         safety_grade |->
             SafeRouteFinder_get_safety_grade(SumSeq(safety_scores) \div Len(route))]

\* the RouteOption dataclass filled from the summary of the route
RouteOption(route, route_type, waypoints) ==
    [route |-> route,
     total_distance |-> get_route_summary(route).total_distance_meters,
     avg_safety_score |-> get_route_summary(route).avg_safety_score,
     total_incidents |-> get_route_summary(route).total_incidents_along_route,
     safety_grade |-> get_route_summary(route).safety_grade,
     route_type |-> route_type,
     waypoints |-> waypoints]

\* what a route constructor makes of the path _find_optimal_path found: an
\* empty route gives None, a search that does not end gives no option at all
OptionOfPath(found, route_type, waypoints) ==
    IF found.outcome = "diverged" THEN [outcome |-> "diverged"]
    ELSE IF found.route = <<>> THEN None
    ELSE RouteOption(found.route, route_type, waypoints)

\* _create_direct_route, _create_safety_optimized_route, _create_balanced_route,
\* _create_perimeter_route, _create_multipath_route: the waypoints of the
\* strategy, optimised at the strategy's own safety weight
create_option(bounds, rows, waypoints, safety_weight, route_type) ==
    OptionOfPath(find_optimal_path(bounds, rows, waypoints, safety_weight),
                 route_type, waypoints)

\* EnhancedRouteFinder._generate_route_options, given the grid after its
\* lazy creation; max_distance is passed to the constructors and read by none
generate_route_options(bounds, rows, start, end) ==
    << create_option(bounds, rows, <<start, end>>, 10, "direct"),
       create_option(bounds, rows,
                     generate_safety_waypoints(bounds, rows, start, end, TRUE), 90, "safest"),
       create_option(bounds, rows,
                     generate_safety_waypoints(bounds, rows, start, end, FALSE), 50, "balanced"),
       create_option(bounds, rows,
                     generate_perimeter_waypoints(bounds, rows, start, end), 70, "perimeter"),
       create_option(bounds, rows,
                     generate_multipath_waypoints(bounds, rows, start, end), 60, "multipath") >>

\* EnhancedRouteFinder._select_best_route: total_distance is a Python float,
\* and 0.0 / 0.0 raises ZeroDivisionError
select_best_route(route_options, safety_weight) ==
    IF route_options = <<>> THEN [raised |-> "No route options available"]
    ELSE IF MaxDistance(route_options) = 0 THEN ZeroDivision
    ELSE SelectLoop(route_options, Len(route_options),
                    MaxDistance(route_options), safety_weight)[2]

\* what find_optimal_safe_route leaves: route_options is self.route_options,
\* the list the returned dictionary holds as all_options
EnhancedResult(outcome, best_route, route_options, error) ==
    [outcome |-> outcome, best_route |-> best_route,
     route_options |-> route_options, error |-> error]

\* the part of find_optimal_safe_route after self.route_options is set
SelectFrom(route_options, safety_weight) ==
    IF route_options = <<>>
    THEN EnhancedResult("raised", None, route_options, "No valid routes found")
    ELSE IF select_best_route(route_options, safety_weight) = ZeroDivision
    THEN EnhancedResult("raised", None, route_options, "ZeroDivisionError")
    ELSE EnhancedResult("returned", select_best_route(route_options, safety_weight),
                        route_options, "")

\* find_optimal_safe_route once _generate_route_options has run: a path
\* search that does not end leaves the call without a result
OptionsFrom(generated, safety_weight) ==
    IF \E i \in 1..Len(generated) : generated[i] # None /\ "outcome" \in DOMAIN generated[i]
    THEN EnhancedResult("diverged", None, <<>>, "")
    ELSE SelectFrom(Routes(generated), safety_weight)

\* EnhancedRouteFinder.find_optimal_safe_route
find_optimal_safe_route(bounds, rows, start, end, safety_weight) ==
    OptionsFrom(generate_route_options(bounds, rows, start, end), safety_weight)

(***************************************************************************)
(* Construction                                                            *)
(***************************************************************************)
ConstructorRaises == [raised |-> "ValueError"]

\* GoogleMapsRouter._create_safety_grid and SafetyRouter._create_safety_grid:
\* no valid row gives no grid; valid rows none of which is recent give
\* np.arange(nan, ...) and the constructor raises
create_safety_grid(rows) ==
    LET valid_data == ValidRows(rows)
    IN  IF valid_data = <<>> THEN None
        ELSE IF RecentRows(valid_data) = <<>> THEN ConstructorRaises
        ELSE CountGrid(RecentRows(valid_data), 200)

\* RoadAwareRouter._create_safety_grid: no check for an empty frame
RoadAwareRouter_create_safety_grid(rows) ==
    IF ValidRows(rows) = <<>> THEN ConstructorRaises
    ELSE CountGrid(ValidRows(rows), 100)

\* SafeRouteFinder._load_and_preprocess_data keeps the last two years
load_and_preprocess_data(rows) == RecentRows(rows)

\* the object after __init__: <<incident_data, safety_grid>>
Constructed(k, rows) ==
    CASE k = "GoogleMapsRouter" -> <<rows, create_safety_grid(rows)>>
      [] k = "SafetyRouter"     -> <<rows, create_safety_grid(rows)>>
      [] k = "RoadAwareRouter"  -> <<rows, RoadAwareRouter_create_safety_grid(rows)>>
      [] k = "SafeRouteFinder"  -> <<load_and_preprocess_data(rows), None>>

(***************************************************************************)
(* The incident files, street networks and requests of the model           *)
(***************************************************************************)
PA == Pt(37770000, -122420000)

PB == Pt(37774000, -122416000)

PN == Pt(37774000, -122420000)

POut == Pt(91000000, -122420000)

\* the middle of the diagonal PA - PB
PC == Pt(37772000, -122418000)

NoRows == <<>>

\* a few incidents around the requests, two of them on the diagonal PA - PB
SparseRows ==
    << Row(37768000, -122424000, 1, TRUE), Row(37778000, -122412000, 1, TRUE),
       Row(37771000, -122419000, 12, TRUE), Row(37773000, -122417000, 40, TRUE),
       Row(37774200, -122419000, 1, TRUE), Row(37770100, -122420100, 3, TRUE) >>

\* 50 incidents in each 0.001-degree cell of a set of cells
HotCells ==
    {<<10, 10>>, <<14, 10>>} \cup ((10..12) \X (7..9)) \cup ((12..14) \X (11..13))

RECURSIVE SetToSeq(_)
SetToSeq(S) ==
    IF S = {} THEN <<>>
    ELSE LET x == CHOOSE c \in S : \A d \in S \ {c} : PathBefore(c, 0, d, 0)
         IN  <<x>> \o SetToSeq(S \ {x})

HotCellSeq == SetToSeq(HotCells)

HotRows ==
    [k \in 1..Len(HotCellSeq) |->
        Row(37760000 + HotCellSeq[k][1] * 1000 + 500,
            -122430000 + HotCellSeq[k][2] * 1000 + 500, 50, TRUE)]

\* incidents with valid coordinates, all older than two years
StaleRows == << Row(37771000, -122419000, 5, FALSE), Row(37773000, -122417000, 2, FALSE) >>

Datasets == {NoRows, SparseRows, HotRows, StaleRows}

\* two ways from node 1 at PA to node 4 at PB: over node 2 on the diagonal,
\* or over nodes 3 and 5 along the north side; every street runs both ways
Undirected(pairs) == pairs \cup {<<q[2], q[1]>> : q \in pairs}

StreetGraph(nodes, y, x, streets) ==
    [nodes |-> nodes, y |-> y, x |-> x, edges |-> Undirected(streets),
     length |-> [e \in Undirected(streets) |->
                    calculate_distance(y[e[1]], x[e[1]], y[e[2]], x[e[2]])]]

NodeLat == <<37770000, 37772000, 37774000, 37774000, 37774000>>

NodeLng == <<-122420000, -122418000, -122420000, -122416000, -122418000>>

TwoWayGraph ==
    StreetGraph(1..5, NodeLat, NodeLng,
                {<<1, 2>>, <<2, 4>>, <<1, 3>>, <<3, 5>>, <<5, 4>>})

\* the same nodes with no street between the two sides
SplitGraph == StreetGraph(1..5, NodeLat, NodeLng, {<<1, 2>>, <<3, 5>>, <<5, 4>>})

\* a construction that leaves every router a downloaded street network
GraphsDownloaded(k) ==
    IF k = "SafeRouteFinder" THEN {None} ELSE {None, TwoWayGraph, SplitGraph}

\* the street networks a router of kind k can hold after construction:
\* GoogleMapsRouter._create_street_network always leaves None, and
\* SafeRouteFinder has no street network
Graphs(k) ==
    IF k \in {"SafetyRouter", "RoadAwareRouter"}
    THEN {None, TwoWayGraph, SplitGraph} ELSE {None}

Kinds == {"GoogleMapsRouter", "SafetyRouter", "RoadAwareRouter", "SafeRouteFinder"}

Points == {PA, PB, PN, POut}

\* start and end of the requests: a trip across, one to the north, one
\* that ends where it starts, one that starts at latitude 91, and one
\* between two street nodes that no street joins directly
Trips == {<<PA, PB>>, <<PA, PN>>, <<PA, PA>>, <<POut, PB>>, <<PC, PN>>}

\* the requests made of SafeRouteFinder stay inside the city
NearTrips == {<<PA, PB>>, <<PA, PN>>, <<PA, PA>>}

\* safety_weight in hundredths; 150 is outside [0, 1]
Weights == {10, 50, 95, 150}

\* the pairs of values the two np.random.normal(0, 0.0003) draws of a
\* waypoint are let to take, in micro-degrees
DrawPairs == {<<0, 0>>, <<300, 0>>}

RouteRequest(start, end, safety_weight) ==
    [op |-> "find_route", start |-> start, end |-> end, safety_weight |-> safety_weight]

ScoreRequest(lat, lng) == [op |-> "get_safety_score", lat |-> lat, lng |-> lng]

\* the points get_safety_score is asked about: those of the trips, two more
\* inside the city, and the north-east corner of the incidents of SparseRows
Probes ==
    Points \cup {Pt(37771000, -122419000), Pt(37771300, -122422000),
                 Pt(37778000, -122412000)}

(***************************************************************************)
(* The router. kind, incident_data and street_graph are fixed by the       *)
(* constructor; safety_grid changes only in SafeRouteFinder, which builds  *)
(* it at the first request. request and result are the last call and what  *)
(* it gave; pre_grid is safety_grid as that call found it; last_call is    *)
(* the call before it when that was the same request, else None.           *)
(***************************************************************************)
Init ==
    \E k \in Kinds, rows \in Datasets :
      \E graph \in Graphs(k) :
        /\ kind = k
        /\ constructed = (Constructed(k, rows)[2] # ConstructorRaises)
        /\ incident_data = Constructed(k, rows)[1]
        /\ safety_grid = Constructed(k, rows)[2]
        /\ street_graph = graph
        /\ request = None
        /\ result = None
        /\ pre_grid = None
        /\ last_call = None
        /\ futures = <<>>
        /\ collected = <<>>

\* what every call records
Call(req, res) ==
    /\ request' = req
    /\ result' = res
    /\ pre_grid' = safety_grid
    /\ last_call' = IF request = req
                    THEN [request |-> request, pre_grid |-> pre_grid, result |-> result]
                    ELSE None

\* GoogleMapsRouter.find_google_route: self.street_graph is None after
\* __init__, so the call is answered by _find_fallback_routes
GoogleFindRoute(start, end, safety_weight) ==
    /\ kind = "GoogleMapsRouter" /\ constructed /\ street_graph = None
    /\ Call(RouteRequest(start, end, safety_weight),
            find_fallback_routes(safety_grid, incident_data, start, end, safety_weight))
    /\ UNCHANGED <<kind, constructed, incident_data, safety_grid, street_graph,
                   futures, collected>>

\* SafetyRouter.find_safe_routes
SafetyFindRoutes(start, end, safety_weight) ==
    /\ kind = "SafetyRouter" /\ constructed
    /\ Call(RouteRequest(start, end, safety_weight),
            find_safe_routes(safety_grid, incident_data, street_graph, start, end, safety_weight))
    /\ UNCHANGED <<kind, constructed, incident_data, safety_grid, street_graph,
                   futures, collected>>

\* RoadAwareRouter.find_road_route
RoadFindRoute(start, end, safety_weight) ==
    /\ kind = "RoadAwareRouter" /\ constructed
    /\ Call(RouteRequest(start, end, safety_weight),
            find_road_route(safety_grid, incident_data, street_graph, start, end, safety_weight))
    /\ UNCHANGED <<kind, constructed, incident_data, safety_grid, street_graph,
                   futures, collected>>

\* SafeRouteFinder.find_safe_route: the grid is created at the first call
\* around that call's start and end, and kept
FinderFindRoute(start, end, safety_weight) ==
    /\ kind = "SafeRouteFinder" /\ constructed
    /\ \E randoms \in [1..NumRandomPairs(start, end) -> DrawPairs] :
         LET bounds == IF safety_grid = None THEN RequestBounds(start, end, 10000)
                       ELSE safety_grid
         IN  /\ safety_grid' = bounds
             /\ Call(RouteRequest(start, end, safety_weight),
                     find_safe_route(bounds, incident_data, start, end, safety_weight, randoms))
    /\ UNCHANGED <<kind, constructed, incident_data, street_graph, futures, collected>>

\* get_safety_score of the four classes
get_safety_score(k, grid, rows, lat, lng) ==
    CASE k = "GoogleMapsRouter" -> GoogleMapsRouter_get_safety_score(grid, lat, lng)
      [] k = "SafetyRouter"     -> SafetyRouter_get_safety_score(grid, lat, lng)
      [] k = "RoadAwareRouter"  -> RoadAwareRouter_get_safety_score(grid, lat, lng)
      [] k = "SafeRouteFinder"  -> SafeRouteFinder_get_safety_score(grid, rows, lat, lng)

GetSafetyScore(lat, lng) ==
    /\ constructed
    /\ LET score == get_safety_score(kind, safety_grid, incident_data, lat, lng)
       IN  Call(ScoreRequest(lat, lng),
                IF score = Raised THEN [outcome |-> "raised", score |-> Raised]
                ELSE [outcome |-> "returned", score |-> score])
    /\ UNCHANGED <<kind, constructed, incident_data, safety_grid, street_graph,
                   futures, collected>>

Next ==
    \/ \E trip \in Trips, safety_weight \in Weights :
         \/ GoogleFindRoute(trip[1], trip[2], safety_weight)
         \/ SafetyFindRoutes(trip[1], trip[2], safety_weight)
         \/ RoadFindRoute(trip[1], trip[2], safety_weight)
    \/ \E trip \in NearTrips, safety_weight \in Weights :
         FinderFindRoute(trip[1], trip[2], safety_weight)
    \/ \E p \in Probes : GetSafetyScore(p[1], p[2])

Spec == Init /\ [][Next]_vars

(***************************************************************************)
(* Properties                                                              *)
(***************************************************************************)
IsRouteCall == request # None /\ request.op = "find_route"

IsScoreCall == request # None /\ request.op = "get_safety_score"

\* the three routers that answer with success, best_route and all_options
IsRouter == kind \in {"GoogleMapsRouter", "SafetyRouter", "RoadAwareRouter"}

ValidPoint(p) ==
    /\ 0 - 90000000 <= p[1] /\ p[1] <= 90000000
    /\ 0 - 180000000 <= p[2] /\ p[2] <= 180000000

ValidRequest ==
    /\ ValidPoint(request.start) /\ ValidPoint(request.end)
    /\ 0 <= request.safety_weight /\ request.safety_weight <= 100

StreetGraphMethods ==
    {"road_aware", "osmnx_safety_optimized", "osmnx_multi_strategy_optimized"}

GaveRoutes == result.outcome = "returned" /\ result.success

\* C1: without a street graph every route-finding entry point returns
\* success with a best route and a routing_method that is not a
\* street-graph method.
C1_NoGraphStillSucceeds ==
    (IsRouteCall /\ IsRouter /\ street_graph = None) =>
        /\ GaveRoutes
        /\ result.best_route # None
        /\ result.routing_method \notin StreetGraphMethods

\* the strategies of the last request all gave no route
AllStrategiesFailed ==
    CASE kind = "SafetyRouter" ->
           /\ street_graph # None
           /\ \A k \in 1..Len(route_strategies) :
                create_route(pre_grid, incident_data, street_graph, request.start, request.end,
                             route_strategies[k].route_type,
                             route_strategies[k].safety_pref) = None
      [] kind = "RoadAwareRouter" ->
           /\ street_graph # None
           /\ generate_road_route_options(pre_grid, incident_data, street_graph,
                 nearest_nodes(street_graph, request.start[2], request.start[1]),
                 nearest_nodes(street_graph, request.end[2], request.end[1])) = <<>>
      [] OTHER -> FALSE

\* C2: for valid arguments, when every strategy fails the caller gets one
\* fallback route with success, never success = false and never an
\* exception.
C2_AllFailGivesFallback ==
    (IsRouteCall /\ IsRouter /\ ValidRequest /\ AllStrategiesFailed) =>
        /\ GaveRoutes
        /\ Len(result.all_options) = 1
        /\ result.best_route = result.all_options[1]

\* C3: a request with safety_weight outside [0, 1] or a coordinate out of
\* range is rejected at every entry point with an invalid-argument error,
\* before anything is computed.
C3_InvalidArgumentsRejected ==
    (IsRouteCall /\ ~ValidRequest) =>
        /\ result.outcome = "raised"
        /\ result.error = "InvalidArgumentError"

\* the routes of the last result
ReturnedRoutes ==
    IF IsRouter /\ GaveRoutes
    THEN {result.best_route} \cup Range(result.all_options)
    ELSE {}

\* C4: every returned route starts at the requested start and ends at the
\* requested end.
C4_RoutesJoinStartAndEnd ==
    IsRouteCall =>
        /\ \A r \in ReturnedRoutes :
              /\ r.route_points[1] = request.start
              /\ r.route_points[Len(r.route_points)] = request.end
        /\ (kind = "SafeRouteFinder" /\ result.outcome = "returned") =>
              /\ Pt(result.route[1].lat, result.route[1].lng) = request.start
              /\ Pt(result.route[Len(result.route)].lat,
                    result.route[Len(result.route)].lng) = request.end

\* C6: a call repeated with the same arguments on the same router state
\* returns what the call before it returned.
C6_RepeatedCallSameResult ==
    (last_call # None /\ last_call.pre_grid = pre_grid) => last_call.result = result

\* C9: the safety_grade of every returned route follows the finer scale
\* (90 A+, 80 A, 70 B, 60 C, 50 D, else F) of its avg_safety_score.
C9_FinerGradeScale ==
    IsRouteCall =>
        \A r \in ReturnedRoutes :
            r.safety_grade = SafeRouteFinder_get_safety_grade(r.avg_safety_score)

\* the largest incident count of a cell that the count -> score mappings
\* are examined for
MaxCount == 60

InRange(score) == 0 <= score /\ score <= 10000

\* C7: the score get_safety_score returns is in [0, 100], for a coordinate
\* inside the grid, outside it or without a grid, and for every incident
\* count of a cell.
C7_ScoreBetween0And100 ==
    /\ (IsScoreCall /\ result.outcome = "returned") => InRange(result.score)
    /\ \A incident_count \in 0..MaxCount :
          /\ InRange(PiecewiseScore(incident_count))
          /\ InRange(LinearScore(incident_count))
          /\ InRange(CellScore(<<Row(PA[1], PA[2], incident_count, TRUE)>>))

\* a score was read from a cell of a built grid that holds incidents
C7_Witness ==
    /\ IsScoreCall /\ result.outcome = "returned"
    /\ kind = "SafetyRouter" /\ safety_grid # None
    /\ InGrid(safety_grid, LookupLatIdx(safety_grid, request.lat),
                           LookupLngIdx(safety_grid, request.lng))
    /\ GridCount(safety_grid, LookupLatIdx(safety_grid, request.lat),
                              LookupLngIdx(safety_grid, request.lng)) > 10
    /\ result.score = 4300

\* the last get_safety_score read a cell of the count grid
ReadGridCell ==
    /\ IsScoreCall /\ IsRouter /\ safety_grid # None
    /\ InGrid(safety_grid, LookupLatIdx(safety_grid, request.lat),
                           LookupLngIdx(safety_grid, request.lng))

\* C8: the count -> score mapping is non-increasing, is 85 at count 0 and
\* never below 20, so that every incident-derived score is in [20, 85].
C8_MappingBetween20And85 ==
    /\ (ReadGridCell /\ result.outcome = "returned") =>
          (2000 <= result.score /\ result.score <= 8500)
    /\ PiecewiseScore(0) = 8500 /\ LinearScore(0) = 8500
    /\ \A incident_count \in 0..MaxCount :
          /\ PiecewiseScore(incident_count) >= 2000
          /\ LinearScore(incident_count) >= 2000
          /\ PiecewiseScore(incident_count + 1) <= PiecewiseScore(incident_count)
          /\ LinearScore(incident_count + 1) <= LinearScore(incident_count)

\* the candidates RoadAwareRouter generated for the last request
RoadOptions ==
    generate_road_route_options(pre_grid, incident_data, street_graph,
        nearest_nodes(street_graph, request.start[2], request.start[1]),
        nearest_nodes(street_graph, request.end[2], request.end[1]))

\* C10: from a non-empty candidate set and a weight in [0, 1] the selected
\* route is a candidate of maximal combined score; the selection always
\* yields a route.
C10_BestHasMaxCombinedScore ==
    (/\ IsRouteCall /\ kind = "RoadAwareRouter" /\ street_graph # None
     /\ 0 <= request.safety_weight /\ request.safety_weight <= 100
     /\ RoadOptions # <<>>) =>
        /\ result.outcome = "returned"
        /\ result.best_route \in Range(RoadOptions)
        /\ \A option \in Range(RoadOptions) :
              CombinedScore(result.best_route, MaxDistance(RoadOptions), request.safety_weight)
                >= CombinedScore(option, MaxDistance(RoadOptions), request.safety_weight)

(***************************************************************************)
(* The two selection rules on a fixed candidate set                        *)
(***************************************************************************)
\* the largest number of candidates of one set
MaxCandidates == 3

CandidateDistances == {0, 400, 800}
CandidateScores == {3000, 6500, 9000}

Candidate(total_distance, avg_safety) ==
    MakeRoute("candidate", <<PA, PB>>, total_distance, avg_safety, 0,
              get_safety_grade(avg_safety), <<avg_safety, avg_safety>>)

Candidates == { Candidate(d, a) : d \in CandidateDistances, a \in CandidateScores }

CandidateSets == UNION { [1..n -> Candidates] : n \in 0..MaxCandidates }

\* the weights in [0, 1], in hundredths
UnitWeights == {0, 10, 50, 95, 100}

WeightPairs == { pair \in UnitWeights \X UnitWeights : pair[1] <= pair[2] }

SelectInit ==
    /\ kind = "selection"
    /\ constructed = TRUE
    /\ incident_data = NoRows
    /\ safety_grid = None
    /\ street_graph = None
    /\ \E route_options \in CandidateSets, pair \in WeightPairs :
          request = [op |-> "select", route_options |-> route_options \o <<>>,
                     w1 |-> pair[1], w2 |-> pair[2]]
    /\ result = None
    /\ pre_grid = None
    /\ last_call = None
    /\ futures = <<>>
    /\ collected = <<>>

\* _select_best_road_route / _select_best_route at the two weights
SelectBestRoute ==
    /\ result' = [rule |-> "combined",
                  at_w1 |-> select_best_road_route(request.route_options, request.w1),
                  at_w2 |-> select_best_road_route(request.route_options, request.w2)]
    /\ UNCHANGED << kind, constructed, incident_data, safety_grid, street_graph,
                    request, pre_grid, last_call, futures, collected >>

\* the sort of _find_fallback_routes and its route_options[0], at the two weights
SelectClosest ==
    /\ request.route_options # <<>>
    /\ result' = [rule |-> "closest",
                  at_w1 |-> SortByCloseness(request.route_options, request.w1)[1],
                  at_w2 |-> SortByCloseness(request.route_options, request.w2)[1]]
    /\ UNCHANGED << kind, constructed, incident_data, safety_grid, street_graph,
                    request, pre_grid, last_call, futures, collected >>

SelectNext == SelectBestRoute \/ SelectClosest

SelectSpec == SelectInit /\ [][SelectNext]_vars

Selected(route) == route \in Candidates

\* C5: for one candidate set and weights w1 <= w2 in [0, 1], the route
\* selected at w2 has an avg_safety_score not lower than the one selected at
\* w1, under the maximum combined score and under the closest-to-100*w rule.
C5_SaferWithLargerWeight ==
    (result # None /\ Selected(result.at_w1) /\ Selected(result.at_w2)) =>
        result.at_w2.avg_safety_score >= result.at_w1.avg_safety_score

\* the maximum combined score picked a nearer route at 0.1 and a strictly
\* safer, farther one at 0.95
C5_Witness ==
    /\ result # None /\ result.rule = "combined"
    /\ request.w1 = 10 /\ request.w2 = 95
    /\ Selected(result.at_w1) /\ Selected(result.at_w2)
    /\ result.at_w2.avg_safety_score > result.at_w1.avg_safety_score
    /\ result.at_w2.total_distance > result.at_w1.total_distance

(***************************************************************************)
(* EnhancedRouteFinder: the constructor of SafeRouteFinder, then calls of  *)
(* find_optimal_safe_route; the grid is created at the first call          *)
(***************************************************************************)
EnhancedInit ==
    \E rows \in Datasets :
        /\ kind = "EnhancedRouteFinder"
        /\ constructed = TRUE
        /\ incident_data = load_and_preprocess_data(rows)
        /\ safety_grid = None
        /\ street_graph = None
        /\ request = None
        /\ result = None
        /\ pre_grid = None
        /\ last_call = None
        /\ futures = <<>>
        /\ collected = <<>>

EnhancedFindRoute(start, end, safety_weight) ==
    /\ kind = "EnhancedRouteFinder"
    /\ LET bounds == IF safety_grid = None THEN RequestBounds(start, end, 20000)
                     ELSE safety_grid
       IN  /\ safety_grid' = bounds
           /\ Call(RouteRequest(start, end, safety_weight),
                   find_optimal_safe_route(bounds, incident_data, start, end, safety_weight))
    /\ UNCHANGED <<kind, constructed, incident_data, street_graph, futures, collected>>

\* 1.3 km north of PA: far enough for _generate_safety_waypoints to give
\* more waypoints than the six of _generate_perimeter_waypoints
PF == Pt(37782000, -122420000)

EnhancedNext ==
    \/ \E trip \in NearTrips, safety_weight \in Weights :
          EnhancedFindRoute(trip[1], trip[2], safety_weight)
    \/ EnhancedFindRoute(PA, PF, 50)

EnhancedSpec == EnhancedInit /\ [][EnhancedNext]_vars

IsEnhancedCall == kind = "EnhancedRouteFinder" /\ request # None

\* C11: every waypoint strategy of EnhancedRouteFinder (direct, safest,
\* balanced, perimeter, multipath) gives a waypoint sequence whose first
\* element is the requested start and whose last element is the requested end.
C11_WaypointsJoinStartAndEnd ==
    IsEnhancedCall =>
        \A i \in 1..Len(result.route_options) :
            LET waypoints == result.route_options[i].waypoints
            IN  /\ Len(waypoints) >= 2
                /\ waypoints[1] = request.start
                /\ waypoints[Len(waypoints)] = request.end

\* a trip across with all five strategies, the multipath one holding an inner
\* waypoint moved off the straight line to a safer place
C11_Witness ==
    /\ IsEnhancedCall /\ request.start # request.end
    /\ {result.route_options[i].route_type : i \in 1..Len(result.route_options)}
         = {"direct", "safest", "balanced", "perimeter", "multipath"}
    /\ \E i \in 1..Len(result.route_options) :
         /\ result.route_options[i].route_type = "multipath"
         /\ Len(result.route_options[i].waypoints) > 4
         /\ result.route_options[i].waypoints[2]
              # Pt(request.start[1] + RoundDiv((request.end[1] - request.start[1]) * 1, 5),
                   request.start[2] + RoundDiv((request.end[2] - request.start[2]) * 1, 5))

\* C12: a request whose start equals its end completes without error and
\* gives a route of total distance 0 whose avg_safety_score is the score of
\* the start point; the division by the maximum distance in the selection of
\* the best route does not fail when every candidate distance is 0.
C12_SamePointGivesZeroRoute ==
    (IsEnhancedCall /\ request.start = request.end) =>
        /\ result.outcome = "returned"
        /\ result.best_route.total_distance = 0
        /\ result.best_route.avg_safety_score
             = SafeRouteFinder_get_safety_score(safety_grid, incident_data,
                                                request.start[1], request.start[2])

(***************************************************************************)
(* GoogleMapsRouter.find_google_route over a street network: the four      *)
(* strategy tasks of the thread pool run on their own, as_completed hands  *)
(* the finished ones to the collecting loop, and its timeout can expire    *)
(* while a future is still to be handed over. __init__ leaves street_graph *)
(* None, so the network is one assigned to the attribute afterwards. The   *)
(* incident file holds rows, so no task draws from the random module.      *)
(***************************************************************************)
ParallelTrips == {<<PA, PB>>, <<PA, PN>>}

ParallelWeights == {10, 95}

ParallelInit ==
    \E rows \in {SparseRows, HotRows}, graph \in {TwoWayGraph, SplitGraph} :
        /\ kind = "GoogleMapsRouter"
        /\ constructed = TRUE
        /\ incident_data = Constructed("GoogleMapsRouter", rows)[1]
        /\ safety_grid = Constructed("GoogleMapsRouter", rows)[2]
        /\ street_graph = graph
        /\ request = None
        /\ result = None
        /\ pre_grid = None
        /\ last_call = None
        /\ futures = <<>>
        /\ collected = <<>>

Future(state, task_result) == [state |-> state, result |-> task_result]

\* find_google_route up to the submission of the four tasks
GoogleSubmit(start, end, safety_weight) ==
    /\ kind = "GoogleMapsRouter" /\ constructed
    /\ street_graph # None /\ street_graph.nodes # {}
    /\ futures = <<>>
    /\ Call(RouteRequest(start, end, safety_weight), [outcome |-> "running"])
    /\ futures' = [k \in 1..Len(route_strategies) |-> Future("running", None)]
    /\ collected' = <<>>
    /\ UNCHANGED <<kind, constructed, incident_data, safety_grid, street_graph>>

\* a strategy task that drops the grid of the router when it ends
TaskDropsGrid(k) ==
    /\ futures # <<>> /\ futures[k].state = "running"
    /\ futures' = [futures EXCEPT ![k] = Future("finished",
          create_simulated_route_with_safety_fast(safety_grid, incident_data, street_graph,
              request.start, request.end,
              route_strategies[k].route_type, route_strategies[k].safety_pref))]
    /\ safety_grid' = None
    /\ UNCHANGED <<kind, constructed, incident_data, street_graph,
                   request, result, pre_grid, last_call, collected>>

\* a worker thread ends _create_simulated_route_with_safety_fast of strategy k
TaskFinishes(k) ==
    /\ futures # <<>> /\ futures[k].state = "running"
    /\ futures' = [futures EXCEPT ![k] = Future("finished",
          create_simulated_route_with_safety_fast(safety_grid, incident_data, street_graph,
              request.start, request.end,
              route_strategies[k].route_type, route_strategies[k].safety_pref))]
    /\ UNCHANGED <<kind, constructed, incident_data, safety_grid, street_graph,
                   request, result, pre_grid, last_call, collected>>

\* as_completed yields the finished future k and the loop body runs on it
Collect(k) ==
    /\ futures # <<>> /\ futures[k].state = "finished"
    /\ futures' = [futures EXCEPT ![k].state = "yielded"]
    /\ collected' = IF futures[k].result # None THEN Append(collected, futures[k].result)
                    ELSE collected
    /\ UNCHANGED <<kind, constructed, incident_data, safety_grid, street_graph,
                   request, result, pre_grid, last_call>>

\* the timeout of as_completed expires with a future not yet yielded: the
\* iterator raises TimeoutError outside the try of the loop body, the with
\* block waits for the running tasks, and the exception leaves the call
TimeoutExpires ==
    /\ futures # <<>>
    /\ \E k \in 1..Len(futures) : futures[k].state # "yielded"
    /\ result' = NoResult("raised", "TimeoutError")
    /\ futures' = <<>>
    /\ collected' = <<>>
    /\ UNCHANGED <<kind, constructed, incident_data, safety_grid, street_graph,
                   request, pre_grid, last_call>>

\* find_google_route after the loop: the fallback without a route, else the
\* stable sort by closeness and its first route
GoogleReturn ==
    /\ futures # <<>>
    /\ \A k \in 1..Len(futures) : futures[k].state = "yielded"
    /\ result' = IF collected = <<>>
                 THEN find_fallback_routes(safety_grid, incident_data,
                                           request.start, request.end, request.safety_weight)
                 ELSE Returned(SortByCloseness(collected, request.safety_weight)[1],
                               SortByCloseness(collected, request.safety_weight),
                               "osmnx_multi_strategy_optimized")
    /\ futures' = <<>>
    /\ collected' = <<>>
    /\ UNCHANGED <<kind, constructed, incident_data, safety_grid, street_graph,
                   request, pre_grid, last_call>>

ParallelNext ==
    \/ \E trip \in ParallelTrips, safety_weight \in ParallelWeights :
         GoogleSubmit(trip[1], trip[2], safety_weight)
    \/ \E k \in 1..Len(route_strategies) : TaskFinishes(k) \/ Collect(k)
    \/ TimeoutExpires
    \/ GoogleReturn

ParallelSpec == ParallelInit /\ [][ParallelNext]_vars

\* the routes of the tasks that have ended
CompletedRoutes ==
    {futures[k].result : k \in {j \in 1..Len(futures) : futures[j].state # "running"}} \ {None}

StrategyRoutes ==
    IF kind = "RoadAwareRouter" THEN RoadOptions
    ELSE Routes([k \in 1..Len(route_strategies) |->
                    create_route(pre_grid, incident_data, street_graph,
                                 request.start, request.end,
                                 route_strategies[k].route_type,
                                 route_strategies[k].safety_pref)])

\* C14: a strategy that fails contributes no route and does not stop the
\* others; whenever at least one strategy succeeds the result has
\* success = true and all_options holds exactly the routes of the strategies
\* that succeeded, at most one per strategy.
C14_SucceededStrategiesAreTheOptions ==
    (/\ IsRouteCall /\ kind \in {"RoadAwareRouter", "SafetyRouter"}
     /\ street_graph # None /\ StrategyRoutes # <<>>) =>
        /\ result.outcome = "returned" /\ result.success
        /\ Len(result.all_options) = Len(StrategyRoutes)
        /\ Range(result.all_options) = Range(StrategyRoutes)
        /\ \A i, j \in 1..Len(result.all_options) :
              result.all_options[i].route_type = result.all_options[j].route_type => i = j

\* the rows the grid of the router is built from: GoogleMapsRouter and
\* SafetyRouter keep the valid rows of the last two years, RoadAwareRouter
\* every valid row
UsableRows ==
    IF kind = "RoadAwareRouter" THEN ValidRows(incident_data)
    ELSE RecentRows(ValidRows(incident_data))

\* C15: with an incident dataset that has no usable incident (none with
\* valid non-zero coordinates, or none left after the two-year recency
\* filter) the construction of the router and the route requests that follow
\* do not fail, and no grid is built.
C15_NoUsableIncidentNoFailure ==
    (IsRouter /\ UsableRows = <<>>) =>
        /\ constructed
        /\ safety_grid = None
        /\ IsRouteCall => result.outcome # "raised"

\* self._calculate_distance(start_lat, start_lng, end_lat, end_lng) of the
\* last request
DirectDistance ==
    calculate_distance(request.start[1], request.start[2], request.end[1], request.end[2])

C17_DiminishingMarginalPenalty ==
    kind \in {"GoogleMapsRouter", "SafetyRouter"} =>
        \A incident_count \in 0..MaxCount :
            PiecewiseScore(incident_count + 1) - PiecewiseScore(incident_count + 2)
              <= PiecewiseScore(incident_count) - PiecewiseScore(incident_count + 1)

\* C18: when two or more candidates have the same maximal combined score,
\* the selection returns the one of them with the lower total distance,
\* whatever the order in which the candidates were generated.
C18_TieGoesToShorterRoute ==
    (result # None /\ result.rule = "combined" /\ Selected(result.at_w1)) =>
        \A option \in Range(request.route_options) :
            CombinedScore(option, MaxDistance(request.route_options), request.w1)
              >= CombinedScore(result.at_w1, MaxDistance(request.route_options), request.w1)
            => result.at_w1.total_distance <= option.total_distance

\* the two rules select different routes from route_options at safety_weight
Disagree(route_options, safety_weight) ==
    /\ route_options # <<>>
    /\ Selected(select_best_road_route(route_options, safety_weight))
    /\ select_best_road_route(route_options, safety_weight)
         # SortByCloseness(route_options, safety_weight)[1]

RulesDisagree ==
    \E route_options \in CandidateSets, safety_weight \in UnitWeights :
        Disagree(route_options, safety_weight)

\* C19: the selection by the maximal combined score and the selection of the
\* route whose avg_safety_score is closest to 100 * safety_weight are not
\* equivalent: there is a candidate set and a weight in [0, 1] for which
\* they select different routes.
C19_RulesNotEquivalent == kind = "selection" => RulesDisagree

\* the maximal combined score selected a route other than the one the
\* closeness rule puts first for the same candidates and weight
C19_Witness ==
    /\ result # None /\ result.rule = "combined"
    /\ Disagree(request.route_options, request.w1)
    /\ result.at_w1 # SortByCloseness(request.route_options, request.w1)[1]
    /\ result.at_w1.avg_safety_score
         > SortByCloseness(request.route_options, request.w1)[1].avg_safety_score

\* the route strategy k gives for the last request
StrategyRoute(k) ==
    create_simulated_route_with_safety_fast(safety_grid, incident_data, street_graph,
        request.start, request.end,
        route_strategies[k].route_type, route_strategies[k].safety_pref)

\* the last call returned the routes of the strategy tasks
ReturnedStrategyRoutes ==
    /\ kind = "GoogleMapsRouter" /\ street_graph # None /\ request # None
    /\ result.outcome = "returned"
    /\ result.routing_method = "osmnx_multi_strategy_optimized"

C21_SharedDataReadOnly ==
    [][/\ incident_data' = incident_data
       /\ safety_grid' = safety_grid
       /\ street_graph' = street_graph]_vars

\* a request is under way: one task has been collected, one has ended and
\* waits, one still runs
C21_Witness ==
    /\ futures # <<>> /\ safety_grid # None
    /\ \E i, j, k \in 1..Len(futures) :
          /\ futures[i].state = "yielded" /\ futures[i].result # None
          /\ futures[j].state = "finished"
          /\ futures[k].state = "running"

\* C22: after any sequence of route requests on one SafeRouteFinder, the
\* safety grid the current request consulted was built from the bounding box
\* of that request's start and end expanded by the margin; a request for
\* another region never scores against the grid of an earlier request.
C22_GridOfCurrentRequest ==
    (kind = "SafeRouteFinder" /\ constructed /\ IsRouteCall) =>
        safety_grid = RequestBounds(request.start, request.end, 10000)

\* grid_size of _create_safety_grid, in metres
grid_size_of(k) == IF k = "RoadAwareRouter" THEN 100 ELSE 200

\* the cell into which _create_safety_grid puts an incident at (lat, lng)
BuildCell(k, grid, lat, lng) ==
    <<BuildLatIdx(lat, grid.lat_min, grid_size_of(k)),
      BuildLngIdx(lng, grid.lng_min, CosMilli((grid.lat_min + grid.lat_max) \div 2),
                  grid_size_of(k))>>

\* the last get_safety_score asked about a point inside the bounds of the
\* count grid of a SafetyRouter or RoadAwareRouter
ScoreCallInsideBounds ==
    /\ IsScoreCall /\ constructed /\ kind \in {"SafetyRouter", "RoadAwareRouter"}
    /\ safety_grid # None
    /\ safety_grid.lat_min < safety_grid.lat_max /\ safety_grid.lng_min < safety_grid.lng_max
    /\ safety_grid.lat_min <= request.lat /\ request.lat <= safety_grid.lat_max
    /\ safety_grid.lng_min <= request.lng /\ request.lng <= safety_grid.lng_max

\* C23: the build of the grid and the lookup agree on the cell of a
\* coordinate: for every coordinate inside the grid bounds, lat_max and
\* lng_max included, get_safety_score reads the cell (i, j) into which the
\* build puts an incident at that coordinate, i = floor((lat - lat_min) /
\* lat_step) and j = floor((lng - lng_min) / lng_step).
C23_LookupReadsBuildCell ==
    ScoreCallInsideBounds =>
        /\ InGrid(safety_grid, LookupLatIdx(safety_grid, request.lat),
                               LookupLngIdx(safety_grid, request.lng))
        /\ <<LookupLatIdx(safety_grid, request.lat), LookupLngIdx(safety_grid, request.lng)>>
             = BuildCell(kind, safety_grid, request.lat, request.lng)

\* the street networks and incident files of the model on which the path of
\* the 'balanced' strategy (0.5) is another than that of 'fastest' (0.1)
BalancedCanDiffer ==
    \E rows \in {SparseRows, HotRows}, graph \in {TwoWayGraph, SplitGraph}, trip \in Trips :
        LET fastest  == create_route(create_safety_grid(rows), rows, graph,
                                     trip[1], trip[2], "fastest", 10)
            balanced == create_route(create_safety_grid(rows), rows, graph,
                                     trip[1], trip[2], "balanced", 50)
        IN  /\ fastest # None /\ balanced # None
            /\ fastest.route_points # balanced.route_points

\* C24: over a street network the edge weight of a strategy depends on its
\* safety weight w in three bands: plain edge length for w < 0.3, the
\* safety-penalised weight for w > 0.7 and a milder safety penalty, other
\* than plain length, for 0.3 <= w <= 0.7; so the 'balanced' strategy can
\* choose another path than the 'fastest' one where safety varies.
C24_BalancedBandHasOwnWeight == kind = "SafetyRouter" => BalancedCanDiffer

(***************************************************************************)
(* SafeRouteFinder._dijkstra on its own: a cost matrix is drawn, then the  *)
(* search runs from node 1 to node n as _find_optimal_path calls it. The   *)
(* matrices are every 3 x 3 matrix and every symmetric 4 x 4 matrix with   *)
(* costs 0..MaxCost, and the symmetric 5 x 5 matrices with costs 0 and     *)
(* MaxCost; the diagonal, which the search never reads, is 0.              *)
(***************************************************************************)
MaxCost == 3

OffDiagonal(n) == {q \in (1..n) \X (1..n) : q[1] # q[2]}

Matrix(n, f) == [i \in 1..n |-> [j \in 1..n |-> IF i = j THEN 0 ELSE f[<<i, j>>]] \o <<>>] \o <<>>

UpperPairs(n) == {q \in (1..n) \X (1..n) : q[1] < q[2]}

SymmetricMatrix(n, f) ==
    [i \in 1..n |-> [j \in 1..n |-> IF i = j THEN 0
                                    ELSE IF i < j THEN f[<<i, j>>] ELSE f[<<j, i>>]] \o <<>>] \o <<>>

CostMatrices ==
    {Matrix(3, f) : f \in [OffDiagonal(3) -> 0..MaxCost]}
      \cup {SymmetricMatrix(4, f) : f \in [UpperPairs(4) -> 0..MaxCost]}
      \cup {SymmetricMatrix(5, f) : f \in [UpperPairs(5) -> {0, MaxCost}]}

DijkstraInit ==
    /\ kind = "dijkstra"
    /\ constructed = TRUE
    /\ incident_data = NoRows
    /\ safety_grid = None
    /\ street_graph = None
    /\ \E costs \in CostMatrices : request = [op |-> "dijkstra", costs |-> costs]
    /\ result = None
    /\ pre_grid = None
    /\ last_call = None
    /\ futures = <<>>
    /\ collected = <<>>

\* self._dijkstra(costs, 0, n - 1)
DijkstraRun ==
    /\ result' = [path |-> dijkstra(request.costs, Len(request.costs))]
    /\ UNCHANGED << kind, constructed, incident_data, safety_grid, street_graph,
                    request, pre_grid, last_call, futures, collected >>

DijkstraNext == DijkstraRun

DijkstraSpec == DijkstraInit /\ [][DijkstraNext]_vars

\* the simple paths from node 1 to node n of the complete graph on 1..n
SimplePaths(n) ==
    PathsFrom([nodes |-> 1..n, edges |-> OffDiagonal(n)], <<1>>, n)

RECURSIVE PathCost(_, _)
PathCost(costs, path) ==
    IF Len(path) < 2 THEN 0
    ELSE costs[path[1]][path[2]] + PathCost(costs, Tail(path))

\* C25: for every n x n cost matrix with finite non-negative off-diagonal
\* costs, _dijkstra(costs, start, end) returns a simple path (no node twice)
\* from start to end whose summed cost is minimal among all paths from start
\* to end.
C25_DijkstraMinimalSimplePath ==
    (kind = "dijkstra" /\ result # None) =>
        /\ result.path \in SimplePaths(Len(request.costs))
        /\ \A q \in SimplePaths(Len(request.costs)) :
              PathCost(request.costs, result.path) <= PathCost(request.costs, q)

\* the search returned a path over two inner nodes that is strictly cheaper
\* than every other path, the direct edge included
C25_Witness ==
    /\ kind = "dijkstra" /\ result # None
    /\ Len(result.path) = 4
    /\ \A q \in SimplePaths(Len(request.costs)) \ {result.path} :
          PathCost(request.costs, result.path) < PathCost(request.costs, q)

C27_TotalDistanceOfFollowedPath ==
    (/\ IsRouteCall /\ kind = "SafetyRouter" /\ GaveRoutes
     /\ result.routing_method = "osmnx_safety_optimized") =>
        \A r \in ReturnedRoutes : r.total_distance = PathLength(r.route_points)

MultipathWaypoints ==
    IF IsEnhancedCall /\ \E i \in 1..Len(result.route_options) :
                            result.route_options[i].route_type = "multipath"
    THEN (CHOOSE option \in Range(result.route_options) :
             option.route_type = "multipath").waypoints
    ELSE <<>>

\* C29: in the merged waypoint list of the multipath strategy the end
\* coordinate occurs only as the last element and the start coordinate only
\* as the first: no input path's own final (or first) point is copied into
\* an intermediate position, whatever the lengths of the two input paths.
C29_EndsOnlyAtTheEnds ==
    (IsEnhancedCall /\ request.start # request.end) =>
        \A k \in 2..(Len(MultipathWaypoints) - 1) :
            /\ MultipathWaypoints[k] # request.start
            /\ MultipathWaypoints[k] # request.end

=============================================================================
